---- MODULE Spec2Model ----
(***************************************************************************)
(* A model of examples/matrix_remy.rs of halo2-svd: quantized vectors and  *)
(* matrices built inside one constraint-building session (halo2 Context),  *)
(* the Freivalds-style product check verify_mul, the tolerance comparators *)
(* and their composition check_svd.                                        *)
(*                                                                         *)
(* The session is modelled as the sequence of cells it has allocated (each *)
(* with its assigned value and the gate that produced it) and the sequence *)
(* of assertions it has emitted.  A handle (AssignedValue) is the index of *)
(* a cell.  The scalar field is a prime field; machine integers bound the  *)
(* model, so the modulus, the precision and the tolerance are scaled down  *)
(* together (see Modulus, PRECISION_BITS, TolBits).                        *)
(***************************************************************************)
EXTENDS Integers, Naturals, Sequences, FiniteSets, TLC

\* ctx: the session; mats, vecs, prods: the matrices, vectors and claimed
\* products built in it (as handles); rand: the challenge cell; last: the
\* last operation run with its arguments and result; input: the CircuitInput
\* of the harness
VARIABLES ctx, mats, vecs, prods, rand, last, input

vars == <<ctx, mats, vecs, prods, rand, last, input>>

(***************************************************************************)
(* Bounds of the model.                                                    *)
(***************************************************************************)
\* fractional bits of the fixed-point chip (the const generic PRECISION_BITS)
PRECISION_BITS == 9
\* bit bound of the singular values (the max_bits_d argument of check_svd)
MaxBitsD == 5
\* the tolerance check_svd and the comparisons are called with is 2^-TolBits
TolBits == 7
\* largest number of rows or columns of an input matrix
MaxDim == 2

(***************************************************************************)
(* The field F (BigPrimeField): a prime below 2^29, so that sums of two    *)
(* elements and of three elements stay machine integers.                   *)
(***************************************************************************)
Modulus == 536870909

FAdd(a, b) == (a + b) % Modulus

FSub(a, b) == ((a - b) + Modulus) % Modulus

FNeg(a) == (Modulus - a) % Modulus

RECURSIVE FMul(_, _)
FMul(a, b) ==
    IF b = 0 THEN 0
    ELSE IF a <= 2147483647 \div b THEN (a * b) % Modulus
    ELSE LET h == FMul(a, b \div 2)
         IN  (((h + h) % Modulus) + (b % 2) * a) % Modulus

\* F::from(u64)
FFrom(n) == n % Modulus

\* the integer a field element stands for in the fixed-point encoding:
\* elements above Modulus/2 are the negatives
Signed(x) == IF x > Modulus \div 2 THEN x - Modulus ELSE x

RECURSIVE Pow2(_)
Pow2(n) == IF n = 0 THEN 1 ELSE 2 * Pow2(n - 1)

\* 2u64.pow(PRECISION_BITS), the quantization scale S
quantization_scale == Pow2(PRECISION_BITS)

(***************************************************************************)
(* Real inputs (f64) are exact rationals [num, den] with den > 0.          *)
(***************************************************************************)
Real(n, d) == [num |-> n, den |-> d]

Abs(n) == IF n < 0 THEN -n ELSE n

RECURSIVE GCD(_, _)
GCD(a, b) == IF b = 0 THEN a ELSE GCD(b, a % b)

RNorm(x) ==
    LET g == GCD(Abs(x.num), x.den)
    IN  IF g = 0 THEN Real(0, 1) ELSE Real(x.num \div g, x.den \div g)

RMul(x, y) == RNorm(Real(x.num * y.num, x.den * y.den))

RAdd(x, y) == RNorm(Real(x.num * y.den + y.num * x.den, x.den * y.den))

RLess(x, y) == x.num * y.den < y.num * x.den

\* FixedPointChip::quantization: round(|x| * S) to the nearest integer, halves
\* away from zero, then the sign is applied in the field
quantization(x) ==
    LET whole == Abs(x.num) \div x.den
        frac == Abs(x.num) % x.den
        x_q == whole * quantization_scale +
               (2 * frac * quantization_scale + x.den) \div (2 * x.den)
    IN  IF x.num < 0 THEN FNeg(FFrom(x_q)) ELSE FFrom(x_q)

\* (tol * (2u64.pow(PRECISION_BITS) as f64)) as u64: the cast truncates and
\* saturates at 0
QuantTol(tol) ==
    IF tol.num <= 0 THEN 0 ELSE (tol.num * quantization_scale) \div tol.den

(***************************************************************************)
(* The session (Context) and the gates used by the module.                 *)
(***************************************************************************)
EmptyCtx == [cells |-> << >>, constraints |-> << >>]

Cell(v, g) == [val |-> v, by |-> g]

\* AssignedValue::value
Value(c, h) == c.cells[h].val

\* append the given cells to the session
Alloc(c, cs) == [c EXCEPT !.cells = @ \o cs]

\* append the given assertions to the session
Constrain(c, as) == [c EXCEPT !.constraints = @ \o as]

\* RangeChip::check_less_than_safe(a, b): asserts 0 <= a < b on the integer
\* representative of the cell
LessThan(h, b) == [kind |-> "less_than", cell |-> h, arg |-> b]

\* GateChip::assert_is_const
IsConst(h, k) == [kind |-> "is_const", cell |-> h, arg |-> k]

Holds(c, a) ==
    IF a.kind = "less_than" THEN Value(c, a.cell) < a.arg
    ELSE Value(c, a.cell) = a.arg

\* the assertions emitted after the first n0 are all satisfied by the
\* assigned values
SatisfiedSince(c, n0) ==
    \A k \in (n0 + 1)..Len(c.constraints) : Holds(c, c.constraints[k])

\* result of an operation: the session it leaves, whether it ran to
\* completion (FALSE: a panic), and its output
Done(c, o) == [ctx |-> c, ok |-> TRUE, out |-> o]

Abort(c) == [ctx |-> c, ok |-> FALSE, out |-> << >>]

\* row-major position k (from 1) of a matrix with cols columns
RowOf(k, cols) == ((k - 1) \div cols) + 1

ColOf(k, cols) == ((k - 1) % cols) + 1

(***************************************************************************)
(* ZkVector and ZkMatrix constructors.                                     *)
(***************************************************************************)
ZkVector_new(c, v) ==
    LET base == Len(c.cells)
    IN  Done(Alloc(c, [k \in 1..Len(v) |-> Cell(quantization(v[k]), "load_witness")]),
             [k \in 1..Len(v) |-> base + k])

ZkMatrix_new(c, matrix) ==
    IF Len(matrix) = 0 THEN Abort(c)
    ELSE LET num_rows == Len(matrix)
             num_col == Len(matrix[1])
             base == Len(c.cells)
         IN  IF \E i \in 1..num_rows : Len(matrix[i]) # num_col THEN Abort(c)
             ELSE Done(Alloc(c, [k \in 1..(num_rows * num_col) |->
                                    Cell(quantization(matrix[RowOf(k, num_col)][ColOf(k, num_col)]),
                                         "load_witness")]),
                       [matrix |-> [i \in 1..num_rows |->
                                       [j \in 1..num_col |-> base + (i - 1) * num_col + j]],
                        num_rows |-> num_rows,
                        num_col |-> num_col])

(***************************************************************************)
(* Tolerance comparators.                                                  *)
(***************************************************************************)
RECURSIVE Flatten(_)
Flatten(ss) == IF Len(ss) = 0 THEN << >> ELSE Head(ss) \o Flatten(Tail(ss))

\* mutants of the helpers below (used to test the properties)
shifted_diff_swapped(x, y, quant_tol) == FAdd(FSub(y, x), FFrom(quant_tol))

range_bound_single(quant_tol) == quant_tol

is_diagonal_never(i, j) == FALSE

shifted_entry_down(x, quant_tol) == FSub(x, FFrom(quant_tol))

\* qadd(qsub(x, y), quant_tol_field): the difference shifted by the tolerance
shifted_diff(x, y, quant_tol) == FAdd(FSub(x, y), FFrom(quant_tol))

\* the bound 2 * quant_tol of the range check
range_bound(quant_tol) == 2 * quant_tol

\* the test i == j of check_mat_id
is_diagonal(i, j) == i = j

\* qadd(x, quant_tol_field): an entry shifted by the tolerance
shifted_entry(x, quant_tol) == FAdd(x, FFrom(quant_tol))

\* check_mat_diff: per entry one qsub cell, one qadd cell and one range check
\* of the shifted difference below 2 * quant_tol
check_mat_diff(c, a, b, tol) ==
    IF Len(a) # Len(b) THEN Abort(c)
    ELSE IF Len(a) = 0 THEN Abort(c)
    ELSE IF Len(a[1]) # Len(b[1]) THEN Abort(c)
    ELSE
    LET quant_tol == QuantTol(tol)
        cols == Len(a[1])
        n == Len(a) * cols
        base == Len(c.cells)
        ele(k) == FSub(Value(c, a[RowOf(k, cols)][ColOf(k, cols)]),
                       Value(c, b[RowOf(k, cols)][ColOf(k, cols)]))
        ele_add(k) == shifted_diff(Value(c, a[RowOf(k, cols)][ColOf(k, cols)]),
                                   Value(c, b[RowOf(k, cols)][ColOf(k, cols)]), quant_tol)
        cells == <<Cell(FFrom(quant_tol), "load_witness")>> \o
                 Flatten([k \in 1..n |-> <<Cell(ele(k), "qsub"), Cell(ele_add(k), "qadd")>>])
        checks == [k \in 1..n |-> LessThan(base + 1 + 2 * k, range_bound(quant_tol))]
    IN  Done(Constrain(Alloc(c, cells), checks), << >>)

\* number of diagonal positions among the first k row-major positions
DiagUpTo(k, rows, cols) ==
    Cardinality({t \in 1..k : is_diagonal(RowOf(t, cols), ColOf(t, cols))})

\* check_mat_id: diagonal entries are compared with scalar_id, the others
\* with zero
check_mat_id(c, a, scalar_id, tol) ==
    IF Len(a) = 0 THEN Done(Alloc(c, <<Cell(FFrom(QuantTol(tol)), "load_witness")>>), << >>)
    ELSE
    LET quant_tol == QuantTol(tol)
        rows == Len(a)
        cols == Len(a[1])
        n == rows * cols
        base == Len(c.cells)
        entry(k) ==
            LET i == RowOf(k, cols)
                j == ColOf(k, cols)
            IN  IF is_diagonal(i, j)
                THEN <<Cell(FSub(Value(c, a[i][i]), Value(c, scalar_id)), "qsub"),
                       Cell(shifted_diff(Value(c, a[i][i]), Value(c, scalar_id), quant_tol),
                            "qadd")>>
                ELSE <<Cell(shifted_entry(Value(c, a[i][j]), quant_tol), "qadd")>>
        cells == <<Cell(FFrom(quant_tol), "load_witness")>> \o
                 Flatten([k \in 1..n |-> entry(k)])
        checks == [k \in 1..n |->
                      LessThan(base + 1 + k + DiagUpTo(k, rows, cols), range_bound(quant_tol))]
    IN  Done(Constrain(Alloc(c, cells), checks), << >>)

\* check_mat_entries_bounded: per entry one qadd cell and one range check
check_mat_entries_bounded(c, a, tol) ==
    IF Len(a) = 0 THEN Done(Alloc(c, <<Cell(FFrom(QuantTol(tol)), "load_witness")>>), << >>)
    ELSE
    LET quant_tol == QuantTol(tol)
        cols == Len(a[1])
        n == Len(a) * cols
        base == Len(c.cells)
        cells == <<Cell(FFrom(quant_tol), "load_witness")>> \o
                 [k \in 1..n |->
                     Cell(shifted_entry(Value(c, a[RowOf(k, cols)][ColOf(k, cols)]), quant_tol),
                          "qadd")]
        checks == [k \in 1..n |-> LessThan(base + 1 + k, range_bound(quant_tol))]
    IN  Done(Constrain(Alloc(c, cells), checks), << >>)

(***************************************************************************)
(* Inputs of the comparator specification: matrices that are zero except   *)
(* for one entry, on the grid of half quantization steps.                  *)
(***************************************************************************)
\* the real number n / (2 S)
Half(n) == Real(n, 2 * quantization_scale)

Dims == 1..MaxDim

\* the rows x cols matrix with x at position (pi, pj) and z elsewhere
OneOff(rows, cols, pi, pj, x, z) ==
    [i \in 1..rows |-> [j \in 1..cols |-> IF i = pi /\ j = pj THEN x ELSE z]]

\* numerators (in half steps): they quantize to -2, -1, 0, 1, 2, 3
CmpNums == {-4, -1, 0, 1, 4, 6}

CmpMatrices ==
    {OneOff(r, k, pi, pj, Half(x), Half(0)) :
        r \in Dims, k \in Dims, pi \in Dims, pj \in Dims, x \in CmpNums}

\* tolerances: they scale to quant_tol 0, 0, 1, 2
CmpTols == {Real(0, 1), Half(1), Half(2), Half(5)}

Init ==
    /\ ctx = EmptyCtx
    /\ mats = << >>
    /\ vecs = << >>
    /\ prods = << >>
    /\ rand = << >>
    /\ last = [op |-> "none", ok |-> TRUE, n0 |-> 0, c0 |-> 0]
    /\ input = << >>

Idle == last.op = "none"

\* ZkMatrix::new on a real matrix
NewMatrix(S) ==
    /\ Idle
    /\ Len(mats) < 2
    /\ \E m \in S :
          LET r == ZkMatrix_new(ctx, m)
          IN  /\ r.ok
              /\ ctx' = r.ctx
              /\ mats' = Append(mats, r.out)
    /\ UNCHANGED <<vecs, prods, rand, last, input>>

\* check_mat_diff on the first and the last matrix built (the same matrix
\* when there is only one)
CheckMatDiff ==
    /\ Idle
    /\ Len(mats) >= 1
    /\ \E tol \in CmpTols :
          LET r == check_mat_diff(ctx, mats[1].matrix, mats[Len(mats)].matrix, tol)
          IN  /\ ctx' = r.ctx
              /\ last' = [op |-> "check_mat_diff", ok |-> r.ok,
                          n0 |-> Len(ctx.cells), c0 |-> Len(ctx.constraints),
                          a |-> mats[1].matrix, b |-> mats[Len(mats)].matrix, tol |-> tol]
    /\ UNCHANGED <<mats, vecs, prods, rand, input>>

CheckMatId ==
    /\ Idle
    /\ Len(mats) = 2
    /\ \E tol \in CmpTols :
          LET scalar_id == mats[2].matrix[1][1]
              r == check_mat_id(ctx, mats[1].matrix, scalar_id, tol)
          IN  /\ ctx' = r.ctx
              /\ last' = [op |-> "check_mat_id", ok |-> r.ok,
                          n0 |-> Len(ctx.cells), c0 |-> Len(ctx.constraints),
                          a |-> mats[1].matrix, scalar_id |-> scalar_id, tol |-> tol]
    /\ UNCHANGED <<mats, vecs, prods, rand, input>>

CheckMatEntriesBounded ==
    /\ Idle
    /\ Len(mats) = 1
    /\ \E tol \in CmpTols :
          LET r == check_mat_entries_bounded(ctx, mats[1].matrix, tol)
          IN  /\ ctx' = r.ctx
              /\ last' = [op |-> "check_mat_entries_bounded", ok |-> r.ok,
                          n0 |-> Len(ctx.cells), c0 |-> Len(ctx.constraints),
                          a |-> mats[1].matrix, tol |-> tol]
    /\ UNCHANGED <<mats, vecs, prods, rand, input>>

NewCmpMatrix == NewMatrix(CmpMatrices)

NextCmp ==
    \/ NewCmpMatrix
    \/ CheckMatDiff
    \/ CheckMatId
    \/ CheckMatEntriesBounded

SpecCmp == Init /\ [][NextCmp]_vars

(***************************************************************************)
(* Properties of the comparators (checked under SpecCmp).                  *)
(***************************************************************************)
\* the positions of a matrix of handles
Positions(a) == {<<i, j>> \in (1..Len(a)) \X (1..MaxDim + 1) : j <= Len(a[i])}

\* x stands for an integer of the half-open interval [-q, q)
InHalfOpen(x, q) == -q <= Signed(x) /\ Signed(x) < q

\* x stands for an integer of the closed interval [-q, q]
InClosed(x, q) == -q <= Signed(x) /\ Signed(x) <= q

LastDiff(p) == FSub(Value(ctx, last.a[p[1]][p[2]]), Value(ctx, last.b[p[1]][p[2]]))

DiffDone == last.op = "check_mat_diff" /\ last.ok

\* the assertions emitted by the last operation
Emitted == SubSeq(ctx.constraints, last.c0 + 1, Len(ctx.constraints))

\* C7 as stated: check_mat_diff is satisfiable exactly when every signed
\* difference a[i][j] - b[i][j] lies in the closed interval
\* [-quant_tol, +quant_tol]
C7_Closed ==
    DiffDone =>
        (SatisfiedSince(ctx, last.c0)
            <=> \A p \in Positions(last.a) : InClosed(LastDiff(p), QuantTol(last.tol)))

\* C7 amended: check_mat_diff emits, per entry, one range check of
\* (a[i][j] - b[i][j] + quant_tol) below 2 * quant_tol, and is satisfiable
\* exactly when every signed difference lies in [-quant_tol, +quant_tol):
\* the upper endpoint is excluded
C7_HalfOpen ==
    DiffDone =>
        /\ Len(Emitted) = Cardinality(Positions(last.a))
        /\ \A k \in 1..Len(Emitted) :
              /\ Emitted[k].kind = "less_than"
              /\ Emitted[k].arg = 2 * QuantTol(last.tol)
              /\ \E p \in Positions(last.a) :
                    Value(ctx, Emitted[k].cell) = FAdd(LastDiff(p), FFrom(QuantTol(last.tol)))
        /\ SatisfiedSince(ctx, last.c0)
              <=> \A p \in Positions(last.a) : InHalfOpen(LastDiff(p), QuantTol(last.tol))

\* an accepted comparison of a 2 x 2 pair with a difference at the lower
\* endpoint -quant_tol, and a nonzero tolerance
C7_Witness ==
    /\ DiffDone
    /\ Len(last.a) = 2 /\ Len(last.a[1]) = 2
    /\ QuantTol(last.tol) >= 1
    /\ SatisfiedSince(ctx, last.c0)
    /\ \E p \in Positions(last.a) : Signed(LastDiff(p)) = -QuantTol(last.tol)

\* C8 as stated: check_mat_diff(a, a, tol) is satisfiable for every
\* tol >= 0, a zero scaled tolerance included
C8_AnyTol ==
    (DiffDone /\ last.a = last.b /\ last.tol.num >= 0) => SatisfiedSince(ctx, last.c0)

\* C8 amended: check_mat_diff(a, a, tol) is satisfiable exactly when the
\* scaled tolerance quant_tol is at least 1
C8_PositiveTol ==
    (DiffDone /\ last.a = last.b /\ last.tol.num >= 0) =>
        (SatisfiedSince(ctx, last.c0) <=> QuantTol(last.tol) >= 1)

\* a matrix compared with itself under a nonzero scaled tolerance, accepted
C8_Witness ==
    /\ DiffDone
    /\ last.a = last.b
    /\ QuantTol(last.tol) >= 1
    /\ Len(last.a) = 2
    /\ \E p \in Positions(last.a) : Value(ctx, last.a[p[1]][p[2]]) # 0
    /\ SatisfiedSince(ctx, last.c0)

IdDone == last.op = "check_mat_id" /\ last.ok

\* entry p of the last matrix minus the entry of scalar * Identity
IdDiff(p) ==
    IF p[1] = p[2]
    THEN FSub(Value(ctx, last.a[p[1]][p[2]]), Value(ctx, last.scalar_id))
    ELSE Value(ctx, last.a[p[1]][p[2]])

\* C9 as stated: check_mat_id is satisfiable exactly when every entry is
\* within the scaled tolerance (|difference| <= quant_tol) of the entry of
\* scalar * Identity
C9_Closed ==
    IdDone =>
        (SatisfiedSince(ctx, last.c0)
            <=> \A p \in Positions(last.a) : InClosed(IdDiff(p), QuantTol(last.tol)))

\* C9 amended: check_mat_id is satisfiable exactly when every diagonal
\* entry minus scalar, and every off-diagonal entry, lies in
\* [-quant_tol, +quant_tol)
C9_HalfOpen ==
    IdDone =>
        (SatisfiedSince(ctx, last.c0)
            <=> \A p \in Positions(last.a) : InHalfOpen(IdDiff(p), QuantTol(last.tol)))

\* an accepted 2 x 2 matrix whose diagonal holds a nonzero scalar
C9_Witness ==
    /\ IdDone
    /\ Len(last.a) = 2 /\ Len(last.a[1]) = 2
    /\ Value(ctx, last.scalar_id) # 0
    /\ SatisfiedSince(ctx, last.c0)

BoundedDone == last.op = "check_mat_entries_bounded" /\ last.ok

LastEntry(p) == Value(ctx, last.a[p[1]][p[2]])

\* C10 as stated: check_mat_entries_bounded is satisfiable exactly when
\* every entry has magnitude at most quant_tol
C10_Closed ==
    BoundedDone =>
        (SatisfiedSince(ctx, last.c0)
            <=> \A p \in Positions(last.a) : InClosed(LastEntry(p), QuantTol(last.tol)))

\* C10 amended: check_mat_entries_bounded is satisfiable exactly when every
\* entry, read as a signed value, lies in [-quant_tol, +quant_tol)
C10_HalfOpen ==
    BoundedDone =>
        (SatisfiedSince(ctx, last.c0)
            <=> \A p \in Positions(last.a) : InHalfOpen(LastEntry(p), QuantTol(last.tol)))

\* an accepted matrix with a negative entry at the lower endpoint
C10_Witness ==
    /\ BoundedDone
    /\ SatisfiedSince(ctx, last.c0)
    /\ \E p \in Positions(last.a) :
          /\ Signed(LastEntry(p)) < 0
          /\ Signed(LastEntry(p)) = -QuantTol(last.tol)

(***************************************************************************)
(* ZkVector::entries_less_than and the vector specification.               *)
(***************************************************************************)
\* largest length of an input vector
MaxVecLen == 3

consecutive_diff_swapped(x, y) == FSub(y, x)

\* a variant of entries_less_than that checks the order of the values while
\* the circuit is built and panics on an unordered vector
entries_less_than_asserting(c, v, max_bits) ==
    IF \E i \in 1..(Len(v) - 1) : Signed(Value(c, v[i])) < Signed(Value(c, v[i + 1]))
    THEN Abort(c)
    ELSE Done(Constrain(c, [i \in 1..Len(v) |-> LessThan(v[i], Pow2(max_bits))]), << >>)

\* qsub(v[i], v[i+1])
consecutive_diff(x, y) == FSub(x, y)

\* one range check per element, then (after v.len() - 1, which panics on the
\* empty vector) one cell and one range check per consecutive difference
entries_less_than(c, v, max_bits) ==
    LET bound == Pow2(max_bits)
        n == Len(v)
        c1 == Constrain(c, [i \in 1..n |-> LessThan(v[i], bound)])
    IN  IF n = 0 THEN Abort(c1)
        ELSE LET base == Len(c1.cells)
                 vec_inc == [i \in 1..(n - 1) |->
                                Cell(consecutive_diff(Value(c1, v[i]), Value(c1, v[i + 1])),
                                     "qsub")]
             IN  Done(Constrain(Alloc(c1, vec_inc),
                                [i \in 1..(n - 1) |-> LessThan(base + i, bound)]),
                      << >>)

RECURSIVE SeqsUpTo(_, _)
\* the sequences over S of length at most n
SeqsUpTo(S, n) ==
    IF n = 0 THEN {<< >>}
    ELSE LET shorter == SeqsUpTo(S, n - 1)
         IN  shorter \cup {Append(q, x) : q \in {t \in shorter : Len(t) = n - 1}, x \in S}

\* numerators (in half steps): they quantize to -1, 0, 1, 2, 3, 4
VecNums == {-1, 0, 1, 4, 6, 8}

VecInputs == SeqsUpTo({Half(x) : x \in VecNums}, MaxVecLen)

\* bounds 2 and 4
VecMaxBits == {1, 2}

\* ZkVector::new on a real vector
NewVector(S) ==
    /\ Idle
    /\ Len(vecs) < 1
    /\ \E v \in S :
          LET r == ZkVector_new(ctx, v)
          IN  /\ ctx' = r.ctx
              /\ vecs' = Append(vecs, r.out)
    /\ UNCHANGED <<mats, prods, rand, last, input>>

NewVecInput == NewVector(VecInputs)

EntriesLessThan ==
    /\ Idle
    /\ Len(vecs) = 1
    /\ \E max_bits \in VecMaxBits :
          LET r == entries_less_than(ctx, vecs[1], max_bits)
          IN  /\ ctx' = r.ctx
              /\ last' = [op |-> "entries_less_than", ok |-> r.ok,
                          n0 |-> Len(ctx.cells), c0 |-> Len(ctx.constraints),
                          v |-> vecs[1], max_bits |-> max_bits]
    /\ UNCHANGED <<mats, vecs, prods, rand, input>>

NextVec ==
    \/ NewVecInput
    \/ EntriesLessThan

SpecVec == Init /\ [][NextVec]_vars

(***************************************************************************)
(* Properties of entries_less_than (checked under SpecVec).                *)
(***************************************************************************)
LessDone == last.op = "entries_less_than" /\ Len(last.v) >= 1

LastElem(i) == Value(ctx, last.v[i])

\* C6: on a non-empty vector entries_less_than(max_bits) emits one range
\* check into [0, 2^max_bits) per element and one per consecutive
\* difference v[i] - v[i+1], and it is satisfiable exactly when
\* 2^max_bits > v[1] >= v[2] >= ... >= v[n] >= 0 as signed values
C6_SortedBounded ==
    LessDone =>
        /\ last.ok
        /\ Len(Emitted) = 2 * Len(last.v) - 1
        /\ \A k \in 1..Len(Emitted) :
              /\ Emitted[k].kind = "less_than"
              /\ Emitted[k].arg = Pow2(last.max_bits)
              /\ k <= Len(last.v) => Emitted[k].cell = last.v[k]
              /\ k > Len(last.v) =>
                    Value(ctx, Emitted[k].cell)
                        = FSub(LastElem(k - Len(last.v)), LastElem(k - Len(last.v) + 1))
        /\ SatisfiedSince(ctx, last.c0)
              <=> /\ \A i \in 1..Len(last.v) :
                        0 <= Signed(LastElem(i)) /\ Signed(LastElem(i)) < Pow2(last.max_bits)
                  /\ \A i \in 1..(Len(last.v) - 1) :
                        Signed(LastElem(i)) >= Signed(LastElem(i + 1))

\* an accepted vector of three elements, one step strictly decreasing
C6_Witness ==
    /\ LessDone
    /\ Len(last.v) = 3
    /\ SatisfiedSince(ctx, last.c0)
    /\ Signed(LastElem(1)) > Signed(LastElem(2))

(***************************************************************************)
(* Field-level matrix products and the Freivalds check verify_mul.         *)
(***************************************************************************)
Min(x, y) == IF x < y THEN x ELSE y

RECURSIVE DotUpTo(_, _, _)
\* sum of xs[j] * ys[j] for j <= n, in the field
DotUpTo(xs, ys, n) ==
    IF n = 0 THEN 0 ELSE FAdd(DotUpTo(xs, ys, n - 1), FMul(xs[n], ys[n]))

gate_inner_product_short(xs, ys) == DotUpTo(xs, ys, Min(Len(xs), Len(ys)) - 1)

\* GateChip::inner_product on the values of two lists of cells (zip stops at
\* the shorter one)
gate_inner_product(xs, ys) == DotUpTo(xs, ys, Min(Len(xs), Len(ys)))

\* the values of a list / of a matrix of handles
Values(c, hs) == [k \in 1..Len(hs) |-> Value(c, hs[k])]

MatValues(c, a) == [i \in 1..Len(a) |-> Values(c, a[i])]

\* field_mat_mul: the product of the values, outside the circuit (its own
\* triple loop)
field_mat_mul(c, a, b) ==
    IF Len(a) = 0 THEN Abort(c)
    ELSE IF Len(a[1]) # Len(b) THEN Abort(c)
    ELSE IF Len(b) = 0 THEN Abort(c)
    ELSE Done(c, [i \in 1..Len(a) |-> [j \in 1..Len(b[1]) |->
                     DotUpTo(Values(c, a[i]), [k \in 1..Len(a[1]) |-> Value(c, b[k][j])],
                             Len(a[1]))]])

\* the loop of honest_prover_mat_mul that loads a matrix of field values as
\* witnesses; the cells are not constrained
load_matrix(c, vals) ==
    IF Len(vals) = 0 THEN Abort(c)
    ELSE LET num_rows == Len(vals)
             num_col == Len(vals[1])
             base == Len(c.cells)
         IN  Done(Alloc(c, [k \in 1..(num_rows * num_col) |->
                               Cell(vals[RowOf(k, num_col)][ColOf(k, num_col)], "load_witness")]),
                  [i \in 1..num_rows |-> [j \in 1..num_col |-> base + (i - 1) * num_col + j]])

honest_prover_mat_mul(c, a, b) ==
    LET c_s == field_mat_mul(c, a, b)
    IN  IF c_s.ok THEN load_matrix(c, c_s.out) ELSE Abort(c)

\* field_mat_vec_mul: one inner-product cell per row of a
field_mat_vec_mul(c, a, v) ==
    IF Len(a) = 0 THEN Abort(c)
    ELSE IF Len(a[1]) # Len(v) THEN Abort(c)
    ELSE LET base == Len(c.cells)
         IN  Done(Alloc(c, [i \in 1..Len(a) |->
                               Cell(gate_inner_product(Values(c, a[i]), Values(c, v)),
                                    "inner_product")]),
                  [i \in 1..Len(a) |-> base + i])

RECURSIVE FPow(_, _)
FPow(r, n) == IF n = 0 THEN 1 ELSE FMul(FPow(r, n - 1), r)

\* GateChip::is_equal: a cell holding 1 when the two values are equal and 0
\* otherwise; it asserts nothing about the two values
gate_is_equal(x, y) == Cell(IF x = y THEN 1 ELSE 0, "is_equal")

\* verify_mul; out holds its local variables
verify_mul(c, a, b, c_s, init_rand) ==
    IF a.num_col # b.num_rows THEN Abort(c)
    ELSE IF Len(c_s) # a.num_rows THEN Abort(c)
    ELSE IF Len(c_s) = 0 THEN Abort(c)
    ELSE IF Len(c_s[1]) # b.num_col THEN Abort(c)
    ELSE IF ~(Len(c_s[1]) >= 1) THEN Abort(c)
    ELSE
    LET d == Len(c_s[1])
        base == Len(c.cells)
        r == Value(c, init_rand)
        c1 == Constrain(Alloc(c, <<Cell(1, "load_witness")>>), <<IsConst(base + 1, 1)>>)
        c2 == Alloc(c1, [i \in 1..(d - 1) |-> Cell(FMul(FPow(r, i - 1), r), "mul")])
        v == [i \in 1..d |-> base + i]
        r1 == field_mat_vec_mul(c2, c_s, v)
        r2 == IF r1.ok THEN field_mat_vec_mul(r1.ctx, b.matrix, v) ELSE r1
        r3 == IF r2.ok THEN field_mat_vec_mul(r2.ctx, a.matrix, r2.out) ELSE r2
    IN  IF ~r3.ok THEN Abort(r3.ctx)
        ELSE LET cs_times_v == r1.out
                 ab_times_v == r3.out
                 n == Len(cs_times_v)
                 c4 == Alloc(r3.ctx, [i \in 1..n |->
                                         gate_is_equal(Value(r3.ctx, cs_times_v[i]),
                                                       Value(r3.ctx, ab_times_v[i]))])
             IN  Done(c4, [v |-> v, cs_times_v |-> cs_times_v, b_times_v |-> r2.out,
                           ab_times_v |-> ab_times_v,
                           eq |-> [i \in 1..n |-> Len(r3.ctx.cells) + i]])

(***************************************************************************)
(* The product specification: two matrices, a claimed product and a       *)
(* challenge squeezed at any point before verify_mul, then verify_mul.     *)
(***************************************************************************)
\* entries 1 everywhere except one entry -2
MulMatrices ==
    {OneOff(r, k, pi, pj, Real(-2, 1), Real(1, 1)) :
        r \in Dims, k \in Dims, pi \in Dims, pj \in Dims}

MulChallenges == {0, 2, Modulus - 1}

NewMulMatrix == NewMatrix(MulMatrices)

\* the prover loads the product it computed with field_mat_mul
HonestProverMatMul ==
    /\ Idle
    /\ Len(mats) = 2
    /\ Len(prods) = 0
    /\ LET r == honest_prover_mat_mul(ctx, mats[1].matrix, mats[2].matrix)
       IN  /\ r.ok
           /\ ctx' = r.ctx
           /\ prods' = Append(prods, r.out)
    /\ UNCHANGED <<mats, vecs, rand, last, input>>

\* the prover loads a matrix that differs from the product in one entry
ForgeProduct ==
    /\ Idle
    /\ Len(mats) = 2
    /\ Len(prods) = 0
    /\ LET h == field_mat_mul(ctx, mats[1].matrix, mats[2].matrix)
       IN  /\ h.ok
           /\ \E pi \in 1..Len(h.out), pj \in 1..Len(h.out[1]) :
                 LET r == load_matrix(ctx, [h.out EXCEPT ![pi][pj] = FAdd(@, 1)])
                 IN  /\ ctx' = r.ctx
                     /\ prods' = Append(prods, r.out)
    /\ UNCHANGED <<mats, vecs, rand, last, input>>

\* PoseidonChip::squeeze: the challenge cell; the hash is not modelled, the
\* challenge is any element of R
Squeeze(R) ==
    /\ Idle
    /\ Len(rand) = 0
    /\ \E r \in R :
          /\ ctx' = Alloc(ctx, <<Cell(r, "poseidon")>>)
          /\ rand' = <<Len(ctx.cells) + 1>>
    /\ UNCHANGED <<mats, vecs, prods, last, input>>

\* the challenge of the product specification: verify_mul takes whatever
\* cell it is handed as init_rand, and nothing orders the squeeze with
\* respect to the matrices or the claimed product, so it may come before
\* the matrices (as in zk_random_verif_algo), between them or after the
\* product witness
SqueezeChallenge == Squeeze(MulChallenges)

VerifyMul ==
    /\ Idle
    /\ Len(mats) = 2
    /\ Len(prods) = 1
    /\ Len(rand) = 1
    /\ LET r == verify_mul(ctx, mats[1], mats[2], prods[1], rand[1])
       IN  /\ ctx' = r.ctx
           /\ last' = [op |-> "verify_mul", ok |-> r.ok,
                       n0 |-> Len(ctx.cells), c0 |-> Len(ctx.constraints),
                       a |-> mats[1], b |-> mats[2], c_s |-> prods[1],
                       init_rand |-> rand[1], out |-> r.out]
    /\ UNCHANGED <<mats, vecs, prods, rand, input>>

NextMul ==
    \/ NewMulMatrix
    \/ HonestProverMatMul
    \/ ForgeProduct
    \/ SqueezeChallenge
    \/ VerifyMul

SpecMul == Init /\ [][NextMul]_vars

(***************************************************************************)
(* Properties of verify_mul (checked under SpecMul).                       *)
(***************************************************************************)
MulDone == last.op = "verify_mul" /\ last.ok

\* entry (i, j) of the exact product of the two matrices, computed entry by
\* entry over the integers and reduced at the end of each step
RECURSIVE ExactEntry(_, _, _)
ExactEntry(i, j, k) ==
    IF k = 0 THEN 0
    ELSE FAdd(ExactEntry(i, j, k - 1),
              FMul(Value(ctx, last.a.matrix[i][k]), Value(ctx, last.b.matrix[k][j])))

ClaimIsProduct ==
    \A i \in 1..Len(last.c_s) : \A j \in 1..Len(last.c_s[i]) :
        Value(ctx, last.c_s[i][j]) = ExactEntry(i, j, last.a.num_col)

\* the polynomial sum_j (c_s - a*b)[i][j] * X^(j-1) of row i, evaluated at
\* the challenge
RECURSIVE DiffPoly(_, _)
DiffPoly(i, j) ==
    IF j = 0 THEN 0
    ELSE FAdd(DiffPoly(i, j - 1),
              FMul(FSub(Value(ctx, last.c_s[i][j]), ExactEntry(i, j, last.a.num_col)),
                   FPow(Value(ctx, last.init_rand), j - 1)))

ChallengeIsRoot == \A i \in 1..Len(last.c_s) : DiffPoly(i, Len(last.c_s[i])) = 0

\* C1: when c_s is the exact field product a*b, for every challenge each
\* (c_s * v)[i] equals (a * (b * v))[i] with v = (1, r, ..., r^(m-1)), every
\* comparison of verify_mul comes out equal and its assertions hold
C1_Completeness ==
    (MulDone /\ ClaimIsProduct) =>
        /\ \A i \in 1..Len(last.out.v) :
              Value(ctx, last.out.v[i]) = FPow(Value(ctx, last.init_rand), i - 1)
        /\ Len(last.out.cs_times_v) = last.a.num_rows
        /\ Len(last.out.ab_times_v) = last.a.num_rows
        /\ \A i \in 1..last.a.num_rows :
              /\ Value(ctx, last.out.cs_times_v[i]) = Value(ctx, last.out.ab_times_v[i])
              /\ Value(ctx, last.out.eq[i]) = 1
        /\ SatisfiedSince(ctx, last.c0)

\* an honest 2 x 2 product of matrices with a negative entry, verified
\* under a challenge other than 0 and 1
C1_Witness ==
    /\ MulDone
    /\ ClaimIsProduct
    /\ last.a.num_rows = 2 /\ last.a.num_col = 2 /\ last.b.num_col = 2
    /\ Value(ctx, last.init_rand) = 2
    /\ \E i \in 1..2, j \in 1..2 : Signed(Value(ctx, last.a.matrix[i][j])) < 0
    /\ Value(ctx, last.out.cs_times_v[1]) # Value(ctx, last.out.cs_times_v[2])

\* C2: a claimed product that differs from a*b is rejected (the assertions
\* of verify_mul cannot hold) unless the challenge is a root of the
\* difference polynomial
C2_Soundness ==
    (MulDone /\ ~ClaimIsProduct /\ ~ChallengeIsRoot) => ~SatisfiedSince(ctx, last.c0)

(***************************************************************************)
(* transpose_matrix, field_mat_diagmat_mul and check_svd.                  *)
(***************************************************************************)
\* variants of transpose_matrix: one that swaps the dimensions but reads the
\* entries of the first column only, one that copies every entry into a new
\* witness cell
transpose_matrix_first_column(c, a) ==
    Done(c, [matrix |-> [i \in 1..a.num_col |-> [j \in 1..a.num_rows |-> a.matrix[j][1]]],
             num_rows |-> a.num_col,
             num_col |-> a.num_rows])

transpose_matrix_copying(c, a) ==
    Done(Alloc(c, [k \in 1..(a.num_col * a.num_rows) |->
                      Cell(Value(c, a.matrix[ColOf(k, a.num_rows)][RowOf(k, a.num_rows)]),
                           "load_witness")]),
         [matrix |-> [i \in 1..a.num_col |->
                         [j \in 1..a.num_rows |-> Len(c.cells) + (i - 1) * a.num_rows + j]],
          num_rows |-> a.num_col,
          num_col |-> a.num_rows])

\* transpose_matrix: reindexes the handles, the session is not touched
transpose_matrix(c, a) ==
    Done(c, [matrix |-> [i \in 1..a.num_col |-> [j \in 1..a.num_rows |-> a.matrix[j][i]]],
             num_rows |-> a.num_col,
             num_col |-> a.num_rows])

\* a scaling of the whole matrix by the first entry of v
field_mat_diagmat_mul_first_entry(c, a, v) ==
    IF Len(a) = 0 THEN Abort(c)
    ELSE IF Len(a[1]) # Len(v) THEN Abort(c)
    ELSE LET cols == Len(a[1])
             base == Len(c.cells)
         IN  Done(Alloc(c, [k \in 1..(Len(a) * cols) |->
                               Cell(FMul(Value(c, a[RowOf(k, cols)][ColOf(k, cols)]),
                                         Value(c, v[1])), "mul")]),
                  [i \in 1..Len(a) |-> [j \in 1..cols |-> base + (i - 1) * cols + j]])

\* field_mat_diagmat_mul: one multiplication cell a[i][j] * v[j] per entry
field_mat_diagmat_mul(c, a, v) ==
    IF Len(a) = 0 THEN Abort(c)
    ELSE IF Len(a[1]) # Len(v) THEN Abort(c)
    ELSE LET cols == Len(a[1])
             base == Len(c.cells)
         IN  Done(Alloc(c, [k \in 1..(Len(a) * cols) |->
                               Cell(FMul(Value(c, a[RowOf(k, cols)][ColOf(k, cols)]),
                                         Value(c, v[ColOf(k, cols)])), "mul")]),
                  [i \in 1..Len(a) |-> [j \in 1..cols |-> base + (i - 1) * cols + j]])

\* the product witness of check_svd: honest_prover_mat_mul computes a * b,
\* but the cells are unconstrained witnesses, so a prover may assign the
\* values `forged` to them instead (forged = << >>: the honest prover)
product_witness(c, a, b, forged) ==
    IF Len(forged) = 0 THEN honest_prover_mat_mul(c, a, b)
    ELSE IF field_mat_mul(c, a, b).ok THEN load_matrix(c, forged)
    ELSE Abort(c)

\* the values S^2 * Identity of the shape of a * a^T
ForgedIdentity(a) ==
    [i \in 1..Len(a) |-> [j \in 1..Len(a) |->
        IF i = j THEN FMul(FFrom(quantization_scale), FFrom(quantization_scale)) ELSE 0]]

\* the local variables of check_svd, before they are assigned
SvdLocals ==
    [mq |-> << >>, uq |-> << >>, vq |-> << >>, dq |-> << >>, uq_t |-> << >>, vq_t |-> << >>,
     prod1 |-> << >>, prod2 |-> << >>, quant_square |-> 0,
     prod_u_ut |-> << >>, prod_v_vt |-> << >>]

\* the local variable the k-th statement of check_svd assigns ("" when the
\* statement keeps no result)
svd_local(k) ==
    CASE k = 1 -> "mq" [] k = 2 -> "uq" [] k = 3 -> "vq" [] k = 4 -> "dq"
      [] k = 8 -> "uq_t" [] k = 9 -> "vq_t" [] k = 10 -> "prod1" [] k = 11 -> "prod2"
      [] k = 14 -> "quant_square" [] k = 15 -> "prod_u_ut" [] k = 18 -> "prod_v_vt"
      [] OTHER -> ""

\* check_svd with each comparator run before the verify_mul of its product
svd_statement_compare_first(k, s, m, u, v, d, tol, max_bits_d, init_rand, forge) ==
    LET max_bits == max_bits_d + PRECISION_BITS
        one_01 == Real(101, 100)
        tol_scale == Real(tol.num * quantization_scale, tol.den)
        quant == FFrom(quantization_scale)
        l == s.out
    IN  CASE k = 1 -> ZkMatrix_new(s.ctx, m)
          [] k = 2 -> ZkMatrix_new(s.ctx, u)
          [] k = 3 -> ZkMatrix_new(s.ctx, v)
          [] k = 4 -> ZkVector_new(s.ctx, d)
          [] k = 5 -> entries_less_than(s.ctx, l.dq, max_bits)
          [] k = 6 -> check_mat_entries_bounded(s.ctx, l.uq.matrix, one_01)
          [] k = 7 -> check_mat_entries_bounded(s.ctx, l.vq.matrix, one_01)
          [] k = 8 -> transpose_matrix(s.ctx, l.uq)
          [] k = 9 -> transpose_matrix(s.ctx, l.vq)
          [] k = 10 -> field_mat_diagmat_mul(s.ctx, l.uq.matrix, l.dq)
          [] k = 11 -> product_witness(s.ctx, l.mq.matrix, l.vq_t.matrix,
                                       IF forge THEN MatValues(s.ctx, l.prod1) ELSE << >>)
          [] k = 12 -> check_mat_diff(s.ctx, l.prod1, l.prod2, tol_scale)
          [] k = 13 -> verify_mul(s.ctx, l.mq, l.vq_t, l.prod2, init_rand)
          [] k = 14 -> Done(Alloc(s.ctx, <<Cell(FMul(quant, quant), "load_witness")>>),
                            Len(s.ctx.cells) + 1)
          [] k = 15 -> product_witness(s.ctx, l.uq.matrix, l.uq_t.matrix,
                                       IF forge THEN ForgedIdentity(l.uq.matrix) ELSE << >>)
          [] k = 16 -> check_mat_id(s.ctx, l.prod_u_ut, l.quant_square, tol_scale)
          [] k = 17 -> verify_mul(s.ctx, l.uq, l.uq_t, l.prod_u_ut, init_rand)
          [] k = 18 -> product_witness(s.ctx, l.vq.matrix, l.vq_t.matrix,
                                       IF forge THEN ForgedIdentity(l.vq.matrix) ELSE << >>)
          [] k = 19 -> check_mat_id(s.ctx, l.prod_v_vt, l.quant_square, tol_scale)
          [] OTHER -> verify_mul(s.ctx, l.vq, l.vq_t, l.prod_v_vt, init_rand)

\* the k-th statement of check_svd, run on the session s.ctx with the locals
\* s.out; forge selects the prover that assigns to the three product
\* witnesses the values the comparators expect
svd_statement(k, s, m, u, v, d, tol, max_bits_d, init_rand, forge) ==
    LET max_bits == max_bits_d + PRECISION_BITS
        one_01 == Real(101, 100)
        tol_scale == Real(tol.num * quantization_scale, tol.den)
        quant == FFrom(quantization_scale)
        l == s.out
    IN  CASE k = 1 -> ZkMatrix_new(s.ctx, m)
          [] k = 2 -> ZkMatrix_new(s.ctx, u)
          [] k = 3 -> ZkMatrix_new(s.ctx, v)
          [] k = 4 -> ZkVector_new(s.ctx, d)
          [] k = 5 -> entries_less_than(s.ctx, l.dq, max_bits)
          [] k = 6 -> check_mat_entries_bounded(s.ctx, l.uq.matrix, one_01)
          [] k = 7 -> check_mat_entries_bounded(s.ctx, l.vq.matrix, one_01)
          [] k = 8 -> transpose_matrix(s.ctx, l.uq)
          [] k = 9 -> transpose_matrix(s.ctx, l.vq)
          [] k = 10 -> field_mat_diagmat_mul(s.ctx, l.uq.matrix, l.dq)
          [] k = 11 -> product_witness(s.ctx, l.mq.matrix, l.vq_t.matrix,
                                       IF forge THEN MatValues(s.ctx, l.prod1) ELSE << >>)
          [] k = 12 -> verify_mul(s.ctx, l.mq, l.vq_t, l.prod2, init_rand)
          [] k = 13 -> check_mat_diff(s.ctx, l.prod1, l.prod2, tol_scale)
          [] k = 14 -> Done(Alloc(s.ctx, <<Cell(FMul(quant, quant), "load_witness")>>),
                            Len(s.ctx.cells) + 1)
          [] k = 15 -> product_witness(s.ctx, l.uq.matrix, l.uq_t.matrix,
                                       IF forge THEN ForgedIdentity(l.uq.matrix) ELSE << >>)
          [] k = 16 -> verify_mul(s.ctx, l.uq, l.uq_t, l.prod_u_ut, init_rand)
          [] k = 17 -> check_mat_id(s.ctx, l.prod_u_ut, l.quant_square, tol_scale)
          [] k = 18 -> product_witness(s.ctx, l.vq.matrix, l.vq_t.matrix,
                                       IF forge THEN ForgedIdentity(l.vq.matrix) ELSE << >>)
          [] k = 19 -> verify_mul(s.ctx, l.vq, l.vq_t, l.prod_v_vt, init_rand)
          [] OTHER -> check_mat_id(s.ctx, l.prod_v_vt, l.quant_square, tol_scale)

\* the first k statements of check_svd in order; a statement that panics
\* ends the function
RECURSIVE svd_statements(_, _, _, _, _, _, _, _, _, _)
svd_statements(k, c, m, u, v, d, tol, max_bits_d, init_rand, forge) ==
    IF k = 0 THEN Done(c, SvdLocals)
    ELSE CHOOSE after \in
            {IF ~s.ok THEN s
             ELSE CHOOSE y \in
                     {IF ~r.ok THEN Abort(r.ctx)
                      ELSE Done(r.ctx, IF svd_local(k) = "" THEN s.out
                                       ELSE [s.out EXCEPT ![svd_local(k)] = r.out]) :
                         r \in {svd_statement(k, s, m, u, v, d, tol, max_bits_d,
                                              init_rand, forge)}} : TRUE :
                s \in {svd_statements(k - 1, c, m, u, v, d, tol, max_bits_d,
                                      init_rand, forge)}} : TRUE

\* check_svd; out holds the local variables
check_svd(c, m, u, v, d, tol, max_bits_d, init_rand, forge) ==
    svd_statements(20, c, m, u, v, d, tol, max_bits_d, init_rand, forge)

(***************************************************************************)
(* The steps of zk_random_verif_algo: the challenge, then check_svd on the *)
(* decomposition read from the input file, with the tolerance and the bit  *)
(* bound of the model as the parameters tol and max_bits_d.                *)
(***************************************************************************)
\* entry (i, j) of u * diag(d) * v over the rationals, first k terms
RECURSIVE UDVEntry(_, _, _, _, _, _)
UDVEntry(u, d, v, i, j, k) ==
    IF k = 0 THEN Real(0, 1)
    ELSE RAdd(UDVEntry(u, d, v, i, j, k - 1), RMul(RMul(u[i][k], d[k]), v[k][j]))

UDV(u, d, v) ==
    [i \in 1..Len(u) |-> [j \in 1..Len(v[1]) |-> UDVEntry(u, d, v, i, j, Len(d))]]

Unit(b) == IF b THEN Real(1, 1) ELSE Real(0, 1)

\* square matrices: the identity, the negated anti-diagonal permutation, a
\* rotation by the angle with cosine 3/5 in the first two coordinates, and a
\* matrix that is not orthogonal
IdentityMat(n) == [i \in 1..n |-> [j \in 1..n |-> Unit(i = j)]]

AntiDiagonal(n) ==
    [i \in 1..n |-> [j \in 1..n |-> IF i + j = n + 1 THEN Real(-1, 1) ELSE Real(0, 1)]]

Rotation(n) ==
    [i \in 1..n |-> [j \in 1..n |->
        IF i <= 2 /\ j <= 2 /\ n >= 2
        THEN IF i = j THEN Real(3, 5) ELSE IF i < j THEN Real(-4, 5) ELSE Real(4, 5)
        ELSE Unit(i = j)]]

Skewed(n) ==
    [i \in 1..n |-> [j \in 1..n |->
        IF i = 1 /\ j = n THEN Real(1, 2) ELSE Unit(i = j)]]

SvdFactors(n) == {IdentityMat(n), AntiDiagonal(n), Rotation(n), Skewed(n)}

\* singular values: a first value followed by equal values
SvdFirst == {1, Pow2(MaxBitsD) - 1, Pow2(MaxBitsD)}

SvdRest == {0, 1, 2}

SvdDiagonals(n) ==
    {[k \in 1..n |-> IF k = 1 THEN Real(x, 1) ELSE Real(y, 1)] : x \in SvdFirst, y \in SvdRest}

\* the parameters tol and max_bits_d check_svd is called with: a tolerance
\* of 2^-TolBits and singular values of at most MaxBitsD bits.  The values
\* zk_random_verif_algo passes (1e-5 and 30, at 32 bits of precision) need
\* integers of more than 90 bits and are not among them
SvdTol == Real(1, Pow2(TolBits))

SvdTols == {SvdTol}

SvdMaxBits == {MaxBitsD}

\* the amounts by which one entry of m is moved: 5/4 of tol, up or down
Perturbations == {Real(5, 4 * Pow2(TolBits)), Real(-5, 4 * Pow2(TolBits))}

Perturbed(m, pi, pj, delta) == [m EXCEPT ![pi][pj] = RAdd(@, delta)]

\* the matrices m of the input files: u * diag(d) * v, as it is or (when the
\* largest singular value is 1) with one entry moved
SvdMatrices(u, d, v) ==
    {UDV(u, d, v)} \cup
    {Perturbed(UDV(u, d, v), pi, pj, delta) :
        pi \in 1..Len(u), pj \in 1..Len(u),
        delta \in IF d[1] = Real(1, 1) THEN Perturbations ELSE {}}

SvdChallenges == {2, 3}

\* a matrix with its last row cut short by one entry
CutLastRow(a) == [a EXCEPT ![Len(a)] = SubSeq(@, 1, Len(@) - 1)]

\* input files whose shapes do not fit: from u = v = m = Identity and d = 1,
\* one of m, u, v is ragged, or d is one entry short or long, or m has one
\* row too many
SvdMisshapen(n) ==
    LET id == IdentityMat(n)
        ones == [k \in 1..n |-> Real(1, 1)]
        fits == [m |-> id, u |-> id, v |-> id, d |-> ones]
    IN  {[fits EXCEPT !.m = CutLastRow(id)],
         [fits EXCEPT !.u = CutLastRow(id)],
         [fits EXCEPT !.v = CutLastRow(id)],
         [fits EXCEPT !.d = SubSeq(ones, 1, n - 1)],
         [fits EXCEPT !.d = Append(ones, Real(1, 1))],
         [fits EXCEPT !.m = Append(id, id[1])]}

\* the CircuitInput the harness is run on
ReadInput ==
    /\ Idle
    /\ Len(input) = 0
    /\ \E n \in Dims :
          \/ \E u \in SvdFactors(n), v \in SvdFactors(n), d \in SvdDiagonals(n) :
             \E m \in SvdMatrices(u, d, v) :
                input' = <<[m |-> m, u |-> u, v |-> v, d |-> d]>>
          \/ \E i \in SvdMisshapen(n) : input' = <<i>>
    /\ UNCHANGED <<ctx, mats, vecs, prods, rand, last>>

\* the challenge of zk_random_verif_algo (init_rand = hash(0)): the constant
\* zero is loaded, the sponge is updated with that cell alone and squeezed;
\* the hash is not modelled, the challenge is any element of SvdChallenges;
\* absorbed is what the sponge was updated with
DeriveChallenge ==
    /\ Idle
    /\ Len(input) = 1
    /\ Len(rand) = 0
    /\ \E init \in SvdChallenges :
          LET zero == Len(ctx.cells) + 1
              init_rand == Len(ctx.cells) + 2
          IN  /\ ctx' = Alloc(ctx, <<Cell(0, "load_constant"), Cell(init, "poseidon")>>)
              /\ rand' = <<init_rand>>
              /\ last' = [op |-> "squeeze", ok |-> TRUE,
                          n0 |-> Len(ctx.cells), c0 |-> Len(ctx.constraints),
                          absorbed |-> <<zero>>, init_rand |-> init_rand]
    /\ UNCHANGED <<mats, vecs, prods, input>>

\* check_svd called on the input with the challenge cell; tol and max_bits_d
\* are its parameters, and forge selects the prover; n0 and c0 are the
\* numbers of cells and constraints before the challenge was derived, svd_n0
\* and svd_c0 those when check_svd is called
CheckSvd ==
    /\ last.op = "squeeze"
    /\ Len(input) = 1
    /\ Len(rand) = 1
    /\ \E tol \in SvdTols, max_bits_d \in SvdMaxBits, forge \in BOOLEAN :
          LET m == input[1].m
              u == input[1].u
              v == input[1].v
              d == input[1].d
              init_rand == rand[1]
              r == check_svd(ctx, m, u, v, d, tol, max_bits_d, init_rand, forge)
          IN  /\ ctx' = r.ctx
              /\ last' = [op |-> "check_svd", ok |-> r.ok,
                          n0 |-> last.n0, c0 |-> last.c0,
                          m |-> m, u |-> u, v |-> v, d |-> d, tol |-> tol,
                          max_bits_d |-> max_bits_d, init_rand |-> init_rand,
                          forge |-> forge, out |-> r.out,
                          absorbed |-> last.absorbed,
                          svd_n0 |-> Len(ctx.cells), svd_c0 |-> Len(ctx.constraints)]
    /\ UNCHANGED <<mats, vecs, prods, rand, input>>

NextSvd ==
    \/ ReadInput
    \/ DeriveChallenge
    \/ CheckSvd

SpecSvd == Init /\ [][NextSvd]_vars

(***************************************************************************)
(* Properties of check_svd.                                                *)
(***************************************************************************)
SvdDone == last.op = "check_svd" /\ last.ok

REqual(x, y) == x.num * y.den = y.num * x.den

RAbs(x) == Real(Abs(x.num), x.den)

\* entry (i, j) of a * a^T over the rationals, first k terms
RECURSIVE GramEntry(_, _, _, _)
GramEntry(a, i, j, k) ==
    IF k = 0 THEN Real(0, 1)
    ELSE RAdd(GramEntry(a, i, j, k - 1), RMul(a[i][k], a[j][k]))

Orthogonal(a) ==
    \A i \in 1..Len(a), j \in 1..Len(a) : REqual(GramEntry(a, i, j, Len(a)), Unit(i = j))

EntriesBelow101(a) ==
    \A i \in 1..Len(a) : \A j \in 1..Len(a[i]) : RLess(RAbs(a[i][j]), Real(101, 100))

\* d is non-negative, non-increasing, with entries below 2^max_bits_d
SingularValuesValid(d, max_bits_d) ==
    /\ \A k \in 1..Len(d) : ~RLess(d[k], Real(0, 1)) /\ RLess(d[k], Real(Pow2(max_bits_d), 1))
    /\ \A k \in 1..(Len(d) - 1) : ~RLess(d[k], d[k + 1])

ExactSvd(m, u, d, v) ==
    \A i \in 1..Len(m) : \A j \in 1..Len(m[i]) : REqual(m[i][j], UDV(u, d, v)[i][j])

\* m is u * diag(d) * v except at one position, where it is off by more
\* than tol
OneEntryMoved(m, u, d, v, tol) ==
    \E p \in Positions(m) :
        /\ RLess(tol, RAbs(RAdd(m[p[1]][p[2]], RMul(Real(-1, 1), UDV(u, d, v)[p[1]][p[2]]))))
        /\ \A q \in Positions(m) : q # p => REqual(m[q[1]][q[2]], UDV(u, d, v)[q[1]][q[2]])

\* check_svd accepts (m, u, v, d) with the honest product witnesses
AcceptsHonest(m, u, v, d, tol, max_bits_d, init) ==
    LET c1 == Alloc(EmptyCtx, <<Cell(0, "load_constant"), Cell(init, "poseidon")>>)
        r == check_svd(c1, m, u, v, d, tol, max_bits_d, 2, FALSE)
    IN  r.ok /\ SatisfiedSince(r.ctx, 0)

\* C3: for orthogonal u and v with entries below 1.01 in magnitude, d
\* non-negative and non-increasing below 2^max_bits_d and m = u*diag(d)*v,
\* every constraint check_svd emits with the honest product witnesses holds,
\* whatever the challenge
C3_AcceptsExactSvd ==
    (/\ SvdDone
     /\ ~last.forge
     /\ Orthogonal(last.u) /\ Orthogonal(last.v)
     /\ EntriesBelow101(last.u) /\ EntriesBelow101(last.v)
     /\ SingularValuesValid(last.d, last.max_bits_d)
     /\ ExactSvd(last.m, last.u, last.d, last.v))
        => SatisfiedSince(ctx, last.c0)

\* C4: when check_svd accepts (u*diag(d)*v, u, v, d) for an orthogonal v,
\* moving one entry of m by more than tol makes the constraints it emits
\* unsatisfiable
C4_RejectsMovedEntry ==
    (/\ SvdDone
     /\ Orthogonal(last.v)
     /\ OneEntryMoved(last.m, last.u, last.d, last.v, last.tol)
     /\ AcceptsHonest(UDV(last.u, last.d, last.v), last.u, last.v, last.d, last.tol,
                      last.max_bits_d, Value(ctx, last.init_rand)))
        => ~SatisfiedSince(ctx, last.c0)

\* entry (i, j) of the field product a * a^T of a quantized matrix
RECURSIVE FieldGramEntry(_, _, _, _)
FieldGramEntry(a, i, j, k) ==
    IF k = 0 THEN 0
    ELSE FAdd(FieldGramEntry(a, i, j, k - 1), FMul(Value(ctx, a[i][k]), Value(ctx, a[j][k])))

\* a * a^T is further than the scaled tolerance from S^2 * Identity
FarFromIdentity(a) ==
    \E i \in 1..Len(a), j \in 1..Len(a) :
        ~InClosed(FSub(FieldGramEntry(a, i, j, Len(a)),
                       IF i = j THEN Value(ctx, last.out.quant_square) ELSE 0),
                  QuantTol(Real(last.tol.num * quantization_scale, last.tol.den)))

\* the challenge is a root of every row polynomial of w - a * a^T
GramChallengeIsRoot(w, a) ==
    \A i \in 1..Len(a) :
        DotUpTo([j \in 1..Len(a) |-> FSub(Value(ctx, w[i][j]), FieldGramEntry(a, i, j, Len(a)))],
                [j \in 1..Len(a) |-> FPow(Value(ctx, last.init_rand), j - 1)],
                Len(a)) = 0

\* C5: when the field product u*u^T or v*v^T is further than the scaled
\* tolerance from S^2 * Identity, the constraints of check_svd are
\* unsatisfiable whatever the prover assigns to prod_u_ut and prod_v_vt,
\* unless the challenge is a root of the difference of the assigned and the
\* true product
C5_OrthogonalityEnforced ==
    (/\ SvdDone
     /\ \/ /\ FarFromIdentity(last.out.uq.matrix)
           /\ ~GramChallengeIsRoot(last.out.prod_u_ut, last.out.uq.matrix)
        \/ /\ FarFromIdentity(last.out.vq.matrix)
           /\ ~GramChallengeIsRoot(last.out.prod_v_vt, last.out.vq.matrix))
        => ~SatisfiedSince(ctx, last.c0)

(***************************************************************************)
(* Matrices and their constructors: ZkMatrix::new, transpose_matrix and    *)
(* rescale_matrix.                                                         *)
(***************************************************************************)
\* largest number of matrices built in one session
MaxMats == 3

\* FixedPointChip::signed_div_scale: the magnitude is divided by S, the
\* remainder dropped, and the sign restored
signed_div_scale(x) ==
    IF Signed(x) < 0 THEN FNeg(FFrom(Abs(Signed(x)) \div quantization_scale))
    ELSE FFrom(Signed(x) \div quantization_scale)

\* number of entries rescale_matrix reaches before an index leaves a row:
\* all of them when no row is shorter than the first
RECURSIVE RescaledUpTo(_, _)
RescaledUpTo(c_s, i) ==
    IF i > Len(c_s) THEN 0
    ELSE IF Len(c_s[i]) < Len(c_s[1]) THEN Len(c_s[i])
    ELSE Len(c_s[1]) + RescaledUpTo(c_s, i + 1)

\* a rescaling in place: the cells of c_s are overwritten with the rescaled
\* values and the result refers to them
rescale_matrix_in_place(c, c_s) ==
    IF Len(c_s) = 0 THEN Abort(c)
    ELSE IF \E i \in 1..Len(c_s) : Len(c_s[i]) < Len(c_s[1]) THEN Abort(c)
    ELSE LET used(h) == \E i \in 1..Len(c_s) : \E j \in 1..Len(c_s[1]) : c_s[i][j] = h
         IN  Done([c EXCEPT !.cells =
                      [h \in 1..Len(c.cells) |->
                          IF used(h) THEN Cell(signed_div_scale(Value(c, h)), "signed_div_scale")
                          ELSE c.cells[h]]],
                  [matrix |-> [i \in 1..Len(c_s) |-> SubSeq(c_s[i], 1, Len(c_s[1]))],
                   num_rows |-> Len(c_s),
                   num_col |-> Len(c_s[1])])

\* a rescaling that records the length of the last row as num_col
rescale_matrix_last_row_width(c, c_s) ==
    IF Len(c_s) = 0 THEN Abort(c)
    ELSE LET num_rows == Len(c_s)
             num_col == Len(c_s[1])
             base == Len(c.cells)
             reached == RescaledUpTo(c_s, 1)
             c1 == Alloc(c, [k \in 1..reached |->
                                Cell(signed_div_scale(
                                         Value(c, c_s[RowOf(k, num_col)][ColOf(k, num_col)])),
                                     "signed_div_scale")])
         IN  IF reached < num_rows * num_col THEN Abort(c1)
             ELSE Done(c1, [matrix |-> [i \in 1..num_rows |->
                                           [j \in 1..num_col |-> base + (i - 1) * num_col + j]],
                            num_rows |-> num_rows,
                            num_col |-> Len(c_s[num_rows])])

\* rescale_matrix: one rescaled cell per entry, in row-major order over
\* c_s.len() rows and c_s[0].len() columns
rescale_matrix(c, c_s) ==
    IF Len(c_s) = 0 THEN Abort(c)
    ELSE LET num_rows == Len(c_s)
             num_col == Len(c_s[1])
             base == Len(c.cells)
             reached == RescaledUpTo(c_s, 1)
             c1 == Alloc(c, [k \in 1..reached |->
                                Cell(signed_div_scale(
                                         Value(c, c_s[RowOf(k, num_col)][ColOf(k, num_col)])),
                                     "signed_div_scale")])
         IN  IF reached < num_rows * num_col THEN Abort(c1)
             ELSE Done(c1, [matrix |-> [i \in 1..num_rows |->
                                           [j \in 1..num_col |-> base + (i - 1) * num_col + j]],
                            num_rows |-> num_rows,
                            num_col |-> num_col])

\* input entries: they quantize to -3S/2, 1 and 3S/2
ShapeEntries == {Real(-3, 2), Real(1, quantization_scale), Real(3, 2)}

ShapeMatrices ==
    {OneOff(r, k, pi, pj, x, Real(0, 1)) :
        r \in Dims, k \in Dims, pi \in Dims, pj \in Dims, x \in ShapeEntries}

NewShapeMatrix ==
    /\ Len(mats) = 0
    /\ NewMatrix(ShapeMatrices)

\* the lists of rows handed to rescale_matrix: the rows of a matrix, the
\* rows with the last one cut short by one entry, and the rows with the
\* last one extended by one entry (the first cell of the session)
RawRows(a) ==
    IF a.num_rows = 0 THEN {a.matrix}
    ELSE {a.matrix,
          [a.matrix EXCEPT ![a.num_rows] = SubSeq(@, 1, a.num_col - 1)],
          [a.matrix EXCEPT ![a.num_rows] = Append(@, 1)]}

\* operations continue while no comparator has run and nothing has panicked
Building == last.op \in {"none", "transpose_matrix", "rescale_matrix"} /\ last.ok

TransposeMatrix ==
    /\ Building
    /\ Len(mats) \in 1..(MaxMats - 1)
    /\ \E k \in 1..Len(mats) :
          LET r == transpose_matrix(ctx, mats[k])
          IN  /\ ctx' = r.ctx
              /\ mats' = Append(mats, r.out)
              /\ last' = [op |-> "transpose_matrix", ok |-> r.ok,
                          n0 |-> Len(ctx.cells), c0 |-> Len(ctx.constraints),
                          k |-> k, a |-> mats[k], out |-> r.out]
    /\ UNCHANGED <<vecs, prods, rand, input>>

RescaleMatrix ==
    /\ Building
    /\ Len(mats) \in 1..(MaxMats - 1)
    /\ \E k \in 1..Len(mats) : \E c_s \in RawRows(mats[k]) :
          LET r == rescale_matrix(ctx, c_s)
          IN  /\ ctx' = r.ctx
              /\ mats' = IF r.ok THEN Append(mats, r.out) ELSE mats
              /\ last' = [op |-> "rescale_matrix", ok |-> r.ok,
                          n0 |-> Len(ctx.cells), c0 |-> Len(ctx.constraints),
                          k |-> k, c_s |-> c_s, out |-> r.out]
    /\ UNCHANGED <<vecs, prods, rand, input>>

NextShape ==
    \/ NewShapeMatrix
    \/ TransposeMatrix
    \/ RescaleMatrix
    \/ CheckMatDiff
    \/ CheckMatEntriesBounded

SpecShape == Init /\ [][NextShape]_vars

(***************************************************************************)
(* Properties of transpose_matrix.                                         *)
(***************************************************************************)
TransposeDone == last.op = "transpose_matrix" /\ last.ok

\* the handles of a matrix, as a set
Handles(a) == UNION {{a[i][j] : j \in 1..Len(a[i])} : i \in 1..Len(a)}

\* C11: transpose_matrix(a) has the dimensions of a swapped and holds a[j][i]
\* at position (i, j); transposing the result gives a matrix with the
\* num_rows, the num_col and, at every position, the field element of a
C11_TransposeInvolution ==
    TransposeDone =>
        /\ last.out.num_rows = last.a.num_col
        /\ last.out.num_col = last.a.num_rows
        /\ Len(last.out.matrix) = last.a.num_col
        /\ \A i \in 1..last.a.num_col :
              /\ Len(last.out.matrix[i]) = last.a.num_rows
              /\ \A j \in 1..last.a.num_rows :
                    /\ last.out.matrix[i][j] = last.a.matrix[j][i]
                    /\ Value(ctx, last.out.matrix[i][j]) = Value(ctx, last.a.matrix[j][i])
        /\ LET back == transpose_matrix(ctx, last.out)
           IN  /\ back.ok
               /\ back.out.num_rows = last.a.num_rows
               /\ back.out.num_col = last.a.num_col
               /\ MatValues(back.ctx, back.out.matrix) = MatValues(ctx, last.a.matrix)
               /\ back.out = last.a

\* a 1 x 2 matrix with two different entries was transposed, and then its
\* transpose was transposed
C11_Witness ==
    /\ TransposeDone
    /\ Len(mats) = 3
    /\ last.k = 2
    /\ mats[1].num_rows = 1 /\ mats[1].num_col = 2
    /\ Value(ctx, mats[1].matrix[1][1]) # Value(ctx, mats[1].matrix[1][2])
    /\ mats[2].num_rows = 2 /\ mats[2].num_col = 1
    /\ mats[3] = mats[1]

\* C12: a step that transposes a matrix leaves the session as it was (no new
\* cell, no new constraint) and every matrix built before as it was, and
\* the result holds only handles of cells that existed before the step
C12_TransposeFrame ==
    [][(last'.op = "transpose_matrix" /\ Len(mats') = Len(mats) + 1) =>
          /\ ctx' = ctx
          /\ \A k \in 1..Len(mats) : mats'[k] = mats[k]
          /\ Handles(mats'[Len(mats')].matrix) \subseteq 1..Len(ctx.cells)]_vars

\* a 2 x 1 matrix built by a rescaling was transposed: the session still
\* holds the four cells it held before
C12_Witness ==
    /\ TransposeDone
    /\ Len(mats) = 3
    /\ last.k = 2
    /\ last.a.num_rows = 2 /\ last.a.num_col = 1
    /\ last.n0 = 4
    /\ Len(ctx.cells) = 4
    /\ last.out.matrix = <<<<3, 4>>>>

(***************************************************************************)
(* Properties of the error handling.                                       *)
(***************************************************************************)
\* every row of a has as many entries as the first
Rectangular(a) == \A i \in 1..Len(a) : Len(a[i]) = Len(a[1])

\* the shapes of the input of check_svd fit: m, u and v are n x n for the
\* same n >= 1 and d has n entries
SvdShapesFit(i) ==
    /\ Len(i.m) >= 1
    /\ \A a \in {i.m, i.u, i.v} : Len(a) = Len(i.m) /\ Len(a[1]) = Len(i.m) /\ Rectangular(a)
    /\ Len(i.d) = Len(i.m)

\* C13: an operation called with a ragged matrix or with mismatched
\* dimensions aborts before it has added anything to the session; for
\* check_svd run by the harness: when it aborts, the session holds the cells
\* and the constraints it held when check_svd was called
C13_AbortBeforeAnyEffect ==
    (last.op = "check_svd" /\ ~SvdShapesFit(input[1])) =>
        /\ ~last.ok
        /\ Len(ctx.cells) = last.svd_n0
        /\ Len(ctx.constraints) = last.svd_c0

\* C14: on an input whose shapes fit, check_svd runs to its last statement
\* whatever the values are: it does not abort, every product witness is
\* there and the cells of the session before the call are still in place;
\* singular values out of order or out of range, and (with the honest
\* product witnesses) a u or v that is not orthogonal, show only as
\* constraints that do not hold
C14_SemanticFailuresDoNotAbort ==
    (last.op = "check_svd" /\ SvdShapesFit(input[1])) =>
        /\ last.ok
        /\ \A p \in {last.out.prod1, last.out.prod2, last.out.prod_u_ut, last.out.prod_v_vt} :
              Len(p) = Len(last.m) /\ Rectangular(p) /\ Len(p[1]) = Len(last.m)
        /\ Len(ctx.cells) > last.svd_n0
        /\ Len(ctx.constraints) > last.svd_c0
        /\ ctx.cells[1] = Cell(0, "load_constant")
        /\ ctx.cells[2].by = "poseidon"
        /\ ~SingularValuesValid(last.d, last.max_bits_d) => ~SatisfiedSince(ctx, last.c0)
        /\ (/\ ~last.forge
            /\ \/ FarFromIdentity(last.out.uq.matrix)
               \/ FarFromIdentity(last.out.vq.matrix))
              => ~SatisfiedSince(ctx, last.c0)

\* check_svd ran to completion on 2 x 2 matrices with singular values out of
\* order and a u that is not orthogonal, and its constraints do not hold
C14_Witness ==
    /\ SvdDone
    /\ Len(last.m) = 2
    /\ RLess(last.d[1], last.d[2])
    /\ last.u = Skewed(2)
    /\ ~last.forge
    /\ FarFromIdentity(last.out.uq.matrix)
    /\ ~SatisfiedSince(ctx, last.c0)

(***************************************************************************)
(* Properties of the challenge.                                            *)
(***************************************************************************)
\* the cells the sponge was updated with before the challenge was squeezed
Absorbed == {last.absorbed[k] : k \in 1..Len(last.absorbed)}

\* C15: the challenge given to the three verify_mul calls of check_svd is
\* squeezed from a sponge that has absorbed every entry of a, b and c_s of
\* each call: m, v^T and prod2; u, u^T and prod_u_ut; v, v^T and prod_v_vt
C15_ChallengeBoundToData ==
    SvdDone =>
        /\ last.init_rand = rand[1]
        /\ \A a \in {last.out.mq.matrix, last.out.vq_t.matrix, last.out.prod2,
                      last.out.uq.matrix, last.out.uq_t.matrix, last.out.prod_u_ut,
                      last.out.vq.matrix, last.out.prod_v_vt} :
              Handles(a) \subseteq Absorbed

(***************************************************************************)
(* Fixed-point products of vectors: ZkVector::inner_product, the norms and *)
(* distances built on it, and ZkVector::mul.                               *)
(***************************************************************************)
RECURSIVE RescaledTermsUpTo(_, _, _)
\* sum over j <= n of the products xs[j] * ys[j], each rescaled on its own
RescaledTermsUpTo(xs, ys, n) ==
    IF n = 0 THEN 0
    ELSE FAdd(RescaledTermsUpTo(xs, ys, n - 1), signed_div_scale(FMul(xs[n], ys[n])))

\* an inner product that rescales every term before adding
inner_product_rescale_each(c, v, x) ==
    IF Len(v) # Len(x) THEN Abort(c)
    ELSE LET res == RescaledTermsUpTo(Values(c, x), Values(c, v), Len(v))
         IN  Done(Alloc(c, <<Cell(res, "inner_product"), Cell(res, "signed_div_scale")>>),
                  Len(c.cells) + 2)

\* ZkVector::inner_product of self = v with x: the lengths are asserted
\* equal, the gate adds the products over the field, and the sum is rescaled
inner_product(c, v, x) ==
    IF Len(v) # Len(x) THEN Abort(c)
    ELSE LET res_s == gate_inner_product(Values(c, x), Values(c, v))
         IN  Done(Alloc(c, <<Cell(res_s, "inner_product"),
                             Cell(signed_div_scale(res_s), "signed_div_scale")>>),
                  Len(c.cells) + 2)

\* ZkVector::_norm_square: the inner product of the vector with itself
_norm_square(c, v) == inner_product(c, v, v)

RECURSIVE ISqrtBetween(_, _, _)
\* the largest y in lo..hi with y * y <= n, by bisection
ISqrtBetween(n, lo, hi) ==
    IF lo = hi THEN lo
    ELSE LET mid == (lo + hi + 1) \div 2
         IN  IF mid * mid <= n THEN ISqrtBetween(n, mid, hi)
             ELSE ISqrtBetween(n, lo, mid - 1)

\* FixedPointChip::qsqrt of a non-negative fixed-point value x: the square
\* root of x / 2^P as a fixed-point value, sqrt(x * 2^P) rounded to the
\* nearest integer.  The steps of the chip are not modelled: the result is
\* one cell and no assertion of the model
qsqrt(x) ==
    LET n == Signed(x) * quantization_scale
        f == ISqrtBetween(n, 0, IF n < 46340 THEN n ELSE 46340)
    IN  IF n - f * f > f THEN f + 1 ELSE f

\* ZkVector::norm: qsqrt of _norm_square
norm(c, v) ==
    LET norm_sq == CHOOSE t \in {_norm_square(s, v) : s \in {c}} : TRUE
    IN  Done(Alloc(norm_sq.ctx, <<Cell(qsqrt(Value(norm_sq.ctx, norm_sq.out)), "qsqrt")>>),
             Len(norm_sq.ctx.cells) + 1)

\* ZkVector::_dist_square of self = v from x: the lengths are asserted
\* equal, one qsub cell per element holds v[i] - x[i], and the result is
\* the _norm_square of the vector of these cells
_dist_square(c, v, x) ==
    IF Len(v) # Len(x) THEN Abort(c)
    ELSE LET base == Len(c.cells)
             c1 == Alloc(c, [i \in 1..Len(v) |->
                                Cell(FSub(Value(c, v[i]), Value(c, x[i])), "qsub")])
             diff == [i \in 1..Len(v) |-> base + i]
         IN  _norm_square(c1, diff)

\* ZkVector::dist: qsqrt of _dist_square
dist(c, v, x) ==
    LET dist_sq == CHOOSE t \in {_dist_square(s, v, x) : s \in {c}} : TRUE
    IN  IF ~dist_sq.ok THEN dist_sq
        ELSE Done(Alloc(dist_sq.ctx,
                        <<Cell(qsqrt(Value(dist_sq.ctx, dist_sq.out)), "qsqrt")>>),
                  Len(dist_sq.ctx.cells) + 1)

RECURSIVE mul_first_row_rows(_, _, _, _)
\* a product that takes the first row of the matrix for every element
mul_first_row_rows(c, v, a, i) ==
    IF i = 0 THEN Done(c, << >>)
    ELSE LET y == mul_first_row_rows(c, v, a, i - 1)
             r == inner_product(y.ctx, v, a.matrix[1])
         IN  Done(r.ctx, Append(y.out, r.out))

mul_first_row(c, v, a) ==
    IF a.num_col # Len(v) THEN Abort(c)
    ELSE mul_first_row_rows(c, v, a, Len(a.matrix))

RECURSIVE MulRows(_, _, _, _)
\* the loop of ZkVector::mul after the first i rows of a: the session and
\* the elements of y pushed so far
MulRows(c, v, a, i) ==
    IF i = 0 THEN Done(c, << >>)
    ELSE LET y == CHOOSE t \in {MulRows(s, v, a, i - 1) : s \in {c}} : TRUE
         IN  IF ~y.ok THEN y
             ELSE LET r == CHOOSE t \in {inner_product(s, v, a.matrix[i]) : s \in {y.ctx}} : TRUE
                  IN  IF r.ok THEN Done(r.ctx, Append(y.out, r.out))
                      ELSE Abort(r.ctx)

\* ZkVector::mul of self = v by the matrix a
mul(c, v, a) ==
    IF a.num_col # Len(v) THEN Abort(c)
    ELSE MulRows(c, v, a, Len(a.matrix))

\* entries of the inputs: they quantize to -23, 20 and 23
DotEntries ==
    {Real(-23, quantization_scale), Real(20, quantization_scale), Real(23, quantization_scale)}

\* vectors with at least one entry
DotVectors == SeqsUpTo(DotEntries, MaxVecLen) \ {<< >>}

DotMatrices ==
    {OneOff(r, k, pi, pj, x, z) :
        r \in Dims, k \in Dims, pi \in Dims, pj \in Dims, x \in DotEntries, z \in DotEntries}

\* ZkVector::new: the session builds two vectors, or one vector and a matrix
NewDotVector ==
    /\ Idle
    /\ Len(vecs) < 2
    /\ Len(mats) = 0
    /\ \E v \in DotVectors :
          LET r == ZkVector_new(ctx, v)
          IN  /\ ctx' = r.ctx
              /\ vecs' = Append(vecs, r.out)
    /\ UNCHANGED <<mats, prods, rand, last, input>>

\* ZkMatrix::new
NewDotMatrix ==
    /\ Idle
    /\ Len(vecs) = 1
    /\ Len(mats) = 0
    /\ \E m \in DotMatrices :
          LET r == ZkMatrix_new(ctx, m)
          IN  /\ r.ok
              /\ ctx' = r.ctx
              /\ mats' = Append(mats, r.out)
    /\ UNCHANGED <<vecs, prods, rand, last, input>>

\* inner_product of the first vector with the second; swapped is the result
\* of the call with the two exchanged, on the same session
InnerProduct ==
    /\ Idle
    /\ Len(vecs) = 2
    /\ LET r == inner_product(ctx, vecs[1], vecs[2])
           t == inner_product(ctx, vecs[2], vecs[1])
       IN  /\ ctx' = r.ctx
           /\ last' = [op |-> "inner_product", ok |-> r.ok,
                       n0 |-> Len(ctx.cells), c0 |-> Len(ctx.constraints),
                       v |-> vecs[1], x |-> vecs[2], out |-> r.out,
                       swapped |-> [ok |-> t.ok,
                                    val |-> IF t.ok THEN Value(t.ctx, t.out) ELSE 0]]
    /\ UNCHANGED <<mats, vecs, prods, rand, input>>

\* _norm_square of the first vector
NormSquare ==
    /\ Idle
    /\ Len(vecs) >= 1
    /\ LET r == _norm_square(ctx, vecs[1])
       IN  /\ ctx' = r.ctx
           /\ last' = [op |-> "_norm_square", ok |-> r.ok,
                       n0 |-> Len(ctx.cells), c0 |-> Len(ctx.constraints),
                       v |-> vecs[1], out |-> r.out]
    /\ UNCHANGED <<mats, vecs, prods, rand, input>>

\* norm of the first vector
Norm ==
    /\ Idle
    /\ Len(vecs) >= 1
    /\ LET r == norm(ctx, vecs[1])
       IN  /\ ctx' = r.ctx
           /\ last' = [op |-> "norm", ok |-> r.ok,
                       n0 |-> Len(ctx.cells), c0 |-> Len(ctx.constraints),
                       v |-> vecs[1], out |-> r.out]
    /\ UNCHANGED <<mats, vecs, prods, rand, input>>

\* _dist_square of the first vector from the second
DistSquare ==
    /\ Idle
    /\ Len(vecs) = 2
    /\ LET r == _dist_square(ctx, vecs[1], vecs[2])
       IN  /\ ctx' = r.ctx
           /\ last' = [op |-> "_dist_square", ok |-> r.ok,
                       n0 |-> Len(ctx.cells), c0 |-> Len(ctx.constraints),
                       v |-> vecs[1], x |-> vecs[2], out |-> r.out]
    /\ UNCHANGED <<mats, vecs, prods, rand, input>>

\* dist of the first vector from the second
Dist ==
    /\ Idle
    /\ Len(vecs) = 2
    /\ LET r == dist(ctx, vecs[1], vecs[2])
       IN  /\ ctx' = r.ctx
           /\ last' = [op |-> "dist", ok |-> r.ok,
                       n0 |-> Len(ctx.cells), c0 |-> Len(ctx.constraints),
                       v |-> vecs[1], x |-> vecs[2], out |-> r.out]
    /\ UNCHANGED <<mats, vecs, prods, rand, input>>

\* field_mat_diagmat_mul of the matrix by the diagonal matrix of the vector
FieldMatDiagmatMul ==
    /\ Idle
    /\ Len(vecs) = 1
    /\ Len(mats) = 1
    /\ LET r == field_mat_diagmat_mul(ctx, mats[1].matrix, vecs[1])
       IN  /\ ctx' = r.ctx
           /\ last' = [op |-> "field_mat_diagmat_mul", ok |-> r.ok,
                       n0 |-> Len(ctx.cells), c0 |-> Len(ctx.constraints),
                       a |-> mats[1].matrix, v |-> vecs[1], out |-> r.out]
    /\ UNCHANGED <<mats, vecs, prods, rand, input>>

\* mul of the vector by the matrix
Mul ==
    /\ Idle
    /\ Len(vecs) = 1
    /\ Len(mats) = 1
    /\ LET r == mul(ctx, vecs[1], mats[1])
       IN  /\ ctx' = r.ctx
           /\ last' = [op |-> "mul", ok |-> r.ok,
                       n0 |-> Len(ctx.cells), c0 |-> Len(ctx.constraints),
                       v |-> vecs[1], a |-> mats[1], out |-> r.out]
    /\ UNCHANGED <<mats, vecs, prods, rand, input>>

NextDot ==
    \/ NewDotVector
    \/ NewDotMatrix
    \/ InnerProduct
    \/ NormSquare
    \/ Norm
    \/ DistSquare
    \/ Dist
    \/ Mul
    \/ FieldMatDiagmatMul

SpecDot == Init /\ [][NextDot]_vars

(***************************************************************************)
(* Properties of inner_product and mul (checked under SpecDot).            *)
(***************************************************************************)
IpDone == last.op = "inner_product"

RECURSIVE IntDot(_, _, _)
\* sum over j <= n of the products of the signed values of the cells v[j]
\* and x[j], over the integers
IntDot(v, x, n) ==
    IF n = 0 THEN 0
    ELSE IntDot(v, x, n - 1) + Signed(Value(ctx, v[n])) * Signed(Value(ctx, x[n]))

\* the signed integer t divided by S, the remainder dropped
RescaledOnce(t) ==
    IF t < 0 THEN 0 - (Abs(t) \div quantization_scale) ELSE t \div quantization_scale

\* the cells added since the last operation began that the gate g made
MadeBy(g) == {k \in (last.n0 + 1)..Len(ctx.cells) : ctx.cells[k].by = g}

\* C16: inner_product(v, x) aborts, leaving the session as it was, exactly
\* when the lengths differ; otherwise its result is the sum of the products
\* v[i] * x[i] rescaled by S once, by a single scaled division, and the call
\* with v and x exchanged gives the same value
C16_InnerProduct ==
    IpDone =>
        /\ last.ok <=> Len(last.x) = Len(last.v)
        /\ last.swapped.ok <=> last.ok
        /\ ~last.ok => Len(ctx.cells) = last.n0 /\ Len(ctx.constraints) = last.c0
        /\ last.ok =>
              /\ Signed(Value(ctx, last.out)) = RescaledOnce(IntDot(last.v, last.x, Len(last.v)))
              /\ Cardinality(MadeBy("signed_div_scale")) = 1
              /\ Cardinality(MadeBy("inner_product")) = 1
              /\ last.swapped.val = Value(ctx, last.out)

\* inner_product ran on two different vectors of the same length, at least
\* 2, for which rescaling the sum differs from adding the rescaled products
\* (as for (20, 20) / S and (20, 23) / S with S = 512: the sum 860 rescales
\* to 1, each product on its own to 0)
C16_Witness ==
    /\ IpDone
    /\ last.ok
    /\ Len(last.v) >= 2
    /\ Values(ctx, last.v) # Values(ctx, last.x)
    /\ Value(ctx, last.out) = 1
    /\ RescaledTermsUpTo(Values(ctx, last.x), Values(ctx, last.v), Len(last.v)) = 0

VecMulDone == last.op = "mul"

\* C17: mul aborts exactly when the number of columns of the matrix differs
\* from the length of the vector; otherwise the result has one element per
\* row of the matrix, and the i-th is the inner product of the vector with
\* row i
C17_VectorMatrixProduct ==
    VecMulDone =>
        /\ last.ok <=> last.a.num_col = Len(last.v)
        /\ ~last.ok => Len(ctx.cells) = last.n0 /\ Len(ctx.constraints) = last.c0
        /\ last.ok =>
              /\ Len(last.out) = last.a.num_rows
              /\ \A i \in 1..last.a.num_rows :
                    LET r == inner_product(ctx, last.v, last.a.matrix[i])
                    IN  /\ r.ok
                        /\ Value(ctx, last.out[i]) = Value(r.ctx, r.out)
                        /\ Signed(Value(ctx, last.out[i])) =
                              RescaledOnce(IntDot(last.v, last.a.matrix[i], Len(last.v)))

\* mul ran on a vector of length 2 and a 2 x 2 matrix whose rows give
\* different inner products
C17_Witness ==
    /\ VecMulDone
    /\ last.ok
    /\ Len(last.v) = 2
    /\ last.a.num_rows = 2
    /\ Len(last.out) = 2
    /\ Value(ctx, last.out[1]) # Value(ctx, last.out[2])

(***************************************************************************)
(* The shape of the matrices (checked under SpecShape).                    *)
(***************************************************************************)
\* a has num_rows rows of num_col handles each
WellShaped(a) ==
    /\ Len(a.matrix) = a.num_rows
    /\ \A i \in 1..Len(a.matrix) : Len(a.matrix[i]) = a.num_col

\* C18: every matrix built by ZkMatrix::new, transpose_matrix or
\* rescale_matrix has num_rows rows of num_col elements each, and no step
\* changes or removes a matrix built before
C18_ShapeInvariant ==
    [][/\ \A k \in 1..Len(mats') : WellShaped(mats'[k])
       /\ Len(mats') >= Len(mats)
       /\ \A k \in 1..Len(mats) : mats'[k] = mats[k]]_vars

\* three matrices are there: one built by ZkMatrix::new, its transpose, and
\* the matrix rescale_matrix made of two rows of which the second was longer
\* than the first
C18_Witness ==
    /\ Len(mats) = 3
    /\ last.op = "rescale_matrix"
    /\ last.ok
    /\ Len(last.c_s) = 2
    /\ Len(last.c_s[2]) > Len(last.c_s[1])
    /\ mats[3] = last.out
    /\ mats[3].num_col = Len(last.c_s[1])
    /\ mats[2].num_rows = mats[1].num_col
    /\ mats[2].num_col = mats[1].num_rows
    /\ mats[1].num_rows # mats[1].num_col

(***************************************************************************)
(* The order of the steps of verify_mul (checked under SpecMul).           *)
(***************************************************************************)
\* every handle of the list hs comes before every handle of the list gs
AllBefore(hs, gs) == \A i \in 1..Len(hs) : \A j \in 1..Len(gs) : hs[i] < gs[j]

\* the positions after c0 at which the session holds the assertion a
EmittedAt(a) == {k \in (last.c0 + 1)..Len(ctx.constraints) : ctx.constraints[k] = a}

\* C19: verify_mul builds the powers first, v[0] constrained to 1 and
\* v[i] = v[i-1] * r, one for each column of c_s; then c_s * v, b * v and
\* a * (b * v) in this order; and only then emits, once for every row i, the
\* equality of (c_s * v)[i] and (a * (b * v))[i]; no step is repeated
C19_ProtocolOrder ==
    MulDone =>
        LET o == last.out
            d == Len(last.c_s[1])
        IN  /\ Len(o.v) = d
            /\ o.v[1] = last.n0 + 1
            /\ Value(ctx, o.v[1]) = 1
            /\ EmittedAt(IsConst(o.v[1], 1)) = {last.c0 + 1}
            /\ \A i \in 2..d :
                  /\ o.v[i] = o.v[i - 1] + 1
                  /\ ctx.cells[o.v[i]].by = "mul"
                  /\ Value(ctx, o.v[i]) = FMul(Value(ctx, o.v[i - 1]), Value(ctx, last.init_rand))
            /\ AllBefore(o.v, o.cs_times_v)
            /\ AllBefore(o.cs_times_v, o.b_times_v)
            /\ AllBefore(o.b_times_v, o.ab_times_v)
            /\ AllBefore(o.ab_times_v, o.eq)
            /\ Len(o.cs_times_v) = last.a.num_rows
            /\ Len(o.b_times_v) = last.b.num_rows
            /\ Len(o.ab_times_v) = last.a.num_rows
            /\ Len(o.eq) = last.a.num_rows
            /\ Len(ctx.cells) = last.n0 + d + 3 * last.a.num_rows + last.b.num_rows
            /\ \A i \in 1..last.a.num_rows :
                  /\ ctx.cells[o.eq[i]] =
                        gate_is_equal(Value(ctx, o.cs_times_v[i]), Value(ctx, o.ab_times_v[i]))
                  /\ Cardinality(EmittedAt(IsConst(o.eq[i], 1))) = 1

\* the same without the last conjunct: the order of the steps alone
OrderOfStepsAlone ==
    MulDone =>
        LET o == last.out
            d == Len(last.c_s[1])
        IN  /\ Len(o.v) = d
            /\ o.v[1] = last.n0 + 1
            /\ EmittedAt(IsConst(o.v[1], 1)) = {last.c0 + 1}
            /\ \A i \in 2..d :
                  Value(ctx, o.v[i]) = FMul(Value(ctx, o.v[i - 1]), Value(ctx, last.init_rand))
            /\ AllBefore(o.v, o.cs_times_v)
            /\ AllBefore(o.cs_times_v, o.b_times_v)
            /\ AllBefore(o.b_times_v, o.ab_times_v)
            /\ AllBefore(o.ab_times_v, o.eq)
            /\ Len(ctx.cells) = last.n0 + d + 3 * last.a.num_rows + last.b.num_rows

(***************************************************************************)
(* The order of the steps of check_svd (checked under SpecSvd).            *)
(***************************************************************************)
\* the session as it was when it held nc cells and nk assertions
SessionAt(nc, nk) ==
    [cells |-> SubSeq(ctx.cells, 1, nc), constraints |-> SubSeq(ctx.constraints, 1, nk)]

\* the three products of check_svd with their factors, in the order of the
\* source: m * v^T, u * u^T, v * v^T
RoundProduct(k) ==
    CASE k = 1 -> last.out.prod2 [] k = 2 -> last.out.prod_u_ut [] OTHER -> last.out.prod_v_vt

RoundLeft(k) == CASE k = 1 -> last.out.mq [] k = 2 -> last.out.uq [] OTHER -> last.out.vq

RoundRight(k) == IF k = 2 THEN last.out.uq_t ELSE last.out.vq_t

\* the handles of a rows x cols matrix allocated as one block after base
Block(base, rows, cols) == [i \in 1..rows |-> [j \in 1..cols |-> base + (i - 1) * cols + j]]

\* the session s (for the second product: s with quant_square loaded) after
\* the witness of the k-th product is allocated with the values it has in
\* the final session
WithWitness(s, k) ==
    LET p == RoundProduct(k)
        n0 == Len(s.cells) + (IF k = 2 THEN 1 ELSE 0)
    IN  [s EXCEPT !.cells = SubSeq(ctx.cells, 1, n0 + Len(p) * Len(p[1]))]

\* the comparator of the k-th product: check_mat_diff against prod1 for the
\* first, check_mat_id against quant_square for the others
Compared(s, k) ==
    LET tol_scale == Real(last.tol.num * quantization_scale, last.tol.den)
    IN  IF k = 1 THEN check_mat_diff(s, last.out.prod1, RoundProduct(k), tol_scale)
        ELSE check_mat_id(s, RoundProduct(k), last.out.quant_square, tol_scale)

\* the session s after the k-th round: witness, then verify_mul with the
\* challenge of the session, then the comparator
RoundAfter(s, k) ==
    CHOOSE x \in
        {Compared(t, k).ctx :
            t \in {verify_mul(w, RoundLeft(k), RoundRight(k), RoundProduct(k),
                              last.init_rand).ctx : w \in {WithWitness(s, k)}}} : TRUE

\* the first assertion of a constant: the one of the first verify_mul
FirstIsConst ==
    CHOOSE q \in 1..Len(ctx.constraints) :
        /\ ctx.constraints[q].kind = "is_const"
        /\ \A t \in 1..(q - 1) : ctx.constraints[t].kind # "is_const"

RECURSIVE SessionAfterRound(_)
\* the session after k rounds, from the session in which prod1 is the last
\* thing computed
SessionAfterRound(k) ==
    IF k = 0 THEN SessionAt(last.out.prod2[1][1] - 1, FirstIsConst - 1)
    ELSE CHOOSE x \in {RoundAfter(s, k) : s \in {SessionAfterRound(k - 1)}} : TRUE

\* the number of cells before the witness of the k-th product
RoundBase(k) == Len(SessionAfterRound(k - 1).cells) + (IF k = 2 THEN 1 ELSE 0)

\* C20: in check_svd the three verify_mul calls get the same challenge, and
\* for each of m * v^T, u * u^T and v * v^T the witness is allocated first,
\* then verify_mul runs on it, then the comparator: the session check_svd
\* leaves is the one these steps produce in this order
C20_VerifyThenCompare ==
    SvdDone =>
        /\ last.init_rand = rand[1]
        /\ \A k \in 1..3 :
              LET p == RoundProduct(k)
              IN  /\ p = Block(RoundBase(k), Len(last.m), Len(last.m))
                  /\ \A h \in Handles(p) : ctx.cells[h].by = "load_witness"
        /\ last.out.quant_square = RoundBase(2)
        /\ SessionAfterRound(3) = ctx

\* check_svd ran on 2 x 2 matrices: three constants 1 were asserted, one by
\* each verify_mul, and each is followed by the challenge as the next power
C20_Witness ==
    /\ SvdDone
    /\ Len(last.m) = 2
    /\ Value(ctx, last.init_rand) = 3
    /\ Cardinality({q \in 1..Len(ctx.constraints) : ctx.constraints[q].kind = "is_const"}) = 3
    /\ \A q \in 1..Len(ctx.constraints) :
          ctx.constraints[q].kind = "is_const" =>
              ctx.cells[ctx.constraints[q].cell + 1] = Cell(3, "mul")

(***************************************************************************)
(* Properties of field_mat_diagmat_mul (checked under SpecDot).            *)
(***************************************************************************)
DiagDone == last.op = "field_mat_diagmat_mul"

\* C21: field_mat_diagmat_mul(a, v) aborts, leaving the session as it was,
\* unless a has len(v) columns; otherwise the result has the shape of a,
\* every entry is a new cell made by one multiplication gate and holds
\* a[i][j] * v[j], not rescaled, and nothing else is added to the session
C21_DiagonalScaling ==
    DiagDone =>
        /\ last.ok <=> Len(last.a[1]) = Len(last.v)
        /\ ~last.ok => Len(ctx.cells) = last.n0 /\ Len(ctx.constraints) = last.c0
        /\ last.ok =>
              /\ Len(last.out) = Len(last.a)
              /\ \A i \in 1..Len(last.a) :
                    /\ Len(last.out[i]) = Len(last.a[i])
                    /\ \A j \in 1..Len(last.a[i]) :
                          /\ last.out[i][j] > last.n0
                          /\ ctx.cells[last.out[i][j]].by = "mul"
                          /\ Signed(Value(ctx, last.out[i][j])) =
                                Signed(Value(ctx, last.a[i][j])) * Signed(Value(ctx, last.v[j]))
              /\ Cardinality(Handles(last.out)) = Len(last.a) * Len(last.v)
              /\ Len(ctx.cells) = last.n0 + Len(last.a) * Len(last.v)
              /\ Len(ctx.constraints) = last.c0

\* a 2 x 2 matrix was scaled by a vector with two different entries, and an
\* entry of the result is -23 * 23, which rescaling would change
C21_Witness ==
    /\ DiagDone
    /\ last.ok
    /\ Len(last.a) = 2
    /\ Len(last.v) = 2
    /\ Value(ctx, last.v[1]) # Value(ctx, last.v[2])
    /\ \E i \in 1..2, j \in 1..2 : Signed(Value(ctx, last.out[i][j])) = 0 - 529

(***************************************************************************)
(* One session shared by all operations: entities are built and the        *)
(* operations of the module run one after the other on them, until one     *)
(* panics or SessionOps operations have run.                               *)
(***************************************************************************)
\* the number of operations of a session
SessionOps == MaxMats + 1

\* the number of operations that have run
SessionStep == IF last.op = "none" THEN 0 ELSE last.step

\* the 1 x MaxDim and the MaxDim x MaxDim matrix, 1 everywhere and 1/2 in
\* the last entry of the first row
SessionMatrices == {OneOff(r, MaxDim, 1, MaxDim, Real(1, 2), Real(1, 1)) : r \in {1, MaxDim}}

\* the vectors of length 1 and MaxDim
SessionVectors == {[k \in 1..n |-> Real(1, 2)] : n \in {1, MaxDim}}

\* the inputs of check_svd: the identity decomposition, and the same with
\* shapes that do not fit
SessionSvdInputs(n) ==
    LET ones == [k \in 1..n |-> Real(1, 1)]
    IN  {[m |-> IdentityMat(n), u |-> IdentityMat(n), v |-> IdentityMat(n), d |-> d] :
            d \in {ones, Append(ones, Real(1, 1))}}

Running == last.ok /\ SessionStep < SessionOps

\* the session and the record of the operation op with the result r
Ran(op, r) ==
    /\ ctx' = r.ctx
    /\ last' = [op |-> op, ok |-> r.ok, n0 |-> Len(ctx.cells), c0 |-> Len(ctx.constraints),
                step |-> SessionStep + 1]

SessionNewMatrix ==
    /\ Running
    /\ Len(mats) < MaxMats
    /\ \E m \in SessionMatrices :
          LET r == ZkMatrix_new(ctx, m)
          IN  Ran("ZkMatrix::new", r) /\ mats' = Append(mats, r.out)
    /\ UNCHANGED <<vecs, prods, rand, input>>

SessionNewVector ==
    /\ Running
    /\ Len(vecs) < 2
    /\ \E v \in SessionVectors :
          LET r == ZkVector_new(ctx, v)
          IN  Ran("ZkVector::new", r) /\ vecs' = Append(vecs, r.out)
    /\ UNCHANGED <<mats, prods, rand, input>>

SessionTranspose ==
    /\ Running
    /\ Len(mats) \in 1..(MaxMats - 1)
    /\ \E k \in 1..Len(mats) :
          LET r == transpose_matrix(ctx, mats[k])
          IN  Ran("transpose_matrix", r) /\ mats' = Append(mats, r.out)
    /\ UNCHANGED <<vecs, prods, rand, input>>

SessionRescale ==
    /\ Running
    /\ Len(mats) \in 1..(MaxMats - 1)
    /\ \E k \in 1..Len(mats) :
          LET r == rescale_matrix(ctx, mats[k].matrix)
          IN  Ran("rescale_matrix", r) /\ mats' = IF r.ok THEN Append(mats, r.out) ELSE mats
    /\ UNCHANGED <<vecs, prods, rand, input>>

SessionInnerProduct ==
    /\ Running
    /\ Len(vecs) >= 1
    /\ Ran("inner_product", inner_product(ctx, vecs[1], vecs[Len(vecs)]))
    /\ UNCHANGED <<mats, vecs, prods, rand, input>>

\* _norm_square and norm of the last vector
SessionNorm ==
    /\ Running
    /\ Len(vecs) >= 1
    /\ \/ Ran("_norm_square", _norm_square(ctx, vecs[Len(vecs)]))
       \/ Ran("norm", norm(ctx, vecs[Len(vecs)]))
    /\ UNCHANGED <<mats, vecs, prods, rand, input>>

\* _dist_square and dist of the first vector from the last
SessionDist ==
    /\ Running
    /\ Len(vecs) >= 1
    /\ \/ Ran("_dist_square", _dist_square(ctx, vecs[1], vecs[Len(vecs)]))
       \/ Ran("dist", dist(ctx, vecs[1], vecs[Len(vecs)]))
    /\ UNCHANGED <<mats, vecs, prods, rand, input>>

\* mul; the product is kept as a vector while there is room for it
SessionMul ==
    /\ Running
    /\ Len(vecs) >= 1
    /\ Len(mats) >= 1
    /\ LET r == mul(ctx, vecs[1], mats[Len(mats)])
       IN  /\ Ran("mul", r)
           /\ vecs' = IF r.ok /\ Len(vecs) < 2 THEN Append(vecs, r.out) ELSE vecs
    /\ UNCHANGED <<mats, prods, rand, input>>

\* field_mat_vec_mul of a matrix by a vector, both taken as field elements
SessionFieldMatVecMul ==
    /\ Running
    /\ \E k \in 1..Len(mats), l \in 1..Len(vecs) :
          Ran("field_mat_vec_mul", field_mat_vec_mul(ctx, mats[k].matrix, vecs[l]))
    /\ UNCHANGED <<mats, vecs, prods, rand, input>>

\* field_mat_diagmat_mul of a matrix by the diagonal matrix of a vector
SessionFieldMatDiagmatMul ==
    /\ Running
    /\ \E k \in 1..Len(mats), l \in 1..Len(vecs) :
          Ran("field_mat_diagmat_mul", field_mat_diagmat_mul(ctx, mats[k].matrix, vecs[l]))
    /\ UNCHANGED <<mats, vecs, prods, rand, input>>

SessionEntriesLessThan ==
    /\ Running
    /\ Len(vecs) >= 1
    /\ Ran("entries_less_than", entries_less_than(ctx, vecs[Len(vecs)], 1))
    /\ UNCHANGED <<mats, vecs, prods, rand, input>>

\* the comparators, on the first and the last matrix
SessionCompare ==
    /\ Running
    /\ Len(mats) >= 1
    /\ LET a == mats[1].matrix
           b == mats[Len(mats)].matrix
       IN  \/ Ran("check_mat_diff", check_mat_diff(ctx, a, b, SvdTol))
           \/ Ran("check_mat_id", check_mat_id(ctx, a, b[1][1], SvdTol))
           \/ Ran("check_mat_entries_bounded", check_mat_entries_bounded(ctx, a, SvdTol))
    /\ UNCHANGED <<mats, vecs, prods, rand, input>>

\* the raw product of the first and the last matrix, as a witness
SessionProduct ==
    /\ Running
    /\ Len(prods) = 0
    /\ Len(mats) >= 1
    /\ LET r == honest_prover_mat_mul(ctx, mats[1].matrix, mats[Len(mats)].matrix)
       IN  /\ Ran("honest_prover_mat_mul", r)
           /\ prods' = IF r.ok THEN <<[a |-> 1, b |-> Len(mats), c_s |-> r.out]>> ELSE prods
    /\ UNCHANGED <<mats, vecs, rand, input>>

SessionSqueeze ==
    /\ Running
    /\ Len(rand) = 0
    /\ Ran("squeeze", Done(Alloc(ctx, <<Cell(2, "poseidon")>>), Len(ctx.cells) + 1))
    /\ rand' = <<Len(ctx.cells) + 1>>
    /\ UNCHANGED <<mats, vecs, prods, input>>

\* verify_mul on the product witness and its factors
SessionVerifyMul ==
    /\ Running
    /\ Len(prods) = 1
    /\ Len(rand) = 1
    /\ Ran("verify_mul",
           verify_mul(ctx, mats[prods[1].a], mats[prods[1].b], prods[1].c_s, rand[1]))
    /\ UNCHANGED <<mats, vecs, prods, rand, input>>

\* check_svd, as the second or third operation of the session
SessionCheckSvd ==
    /\ Running
    /\ SessionStep <= 2
    /\ Len(rand) = 1
    /\ \E n \in Dims : \E i \in SessionSvdInputs(n) :
          Ran("check_svd", check_svd(ctx, i.m, i.u, i.v, i.d, SvdTol, MaxBitsD, rand[1], FALSE))
    /\ UNCHANGED <<mats, vecs, prods, rand, input>>

NextSession ==
    \/ SessionNewMatrix
    \/ SessionNewVector
    \/ SessionTranspose
    \/ SessionRescale
    \/ SessionInnerProduct
    \/ SessionNorm
    \/ SessionDist
    \/ SessionMul
    \/ SessionFieldMatVecMul
    \/ SessionFieldMatDiagmatMul
    \/ SessionEntriesLessThan
    \/ SessionCompare
    \/ SessionProduct
    \/ SessionSqueeze
    \/ SessionVerifyMul
    \/ SessionCheckSvd

SpecSession == Init /\ [][NextSession]_vars

\* the sequence s is an initial part of the sequence t
IsPrefix(s, t) == Len(s) <= Len(t) /\ \A k \in 1..Len(s) : t[k] = s[k]

\* C22: every step leaves the cells and the assertions the session held in
\* place and unchanged, adding new ones after them only, and leaves every
\* vector, matrix and product witness built before with the same handles
C22_SessionOnlyGrows ==
    [][/\ IsPrefix(ctx.cells, ctx'.cells)
       /\ IsPrefix(ctx.constraints, ctx'.constraints)
       /\ IsPrefix(mats, mats')
       /\ IsPrefix(vecs, vecs')
       /\ IsPrefix(prods, prods')]_vars

\* rescale_matrix built the second matrix of a session that holds a vector
\* and assertions of an earlier operation
C22_Witness ==
    /\ last.op = "rescale_matrix"
    /\ last.ok
    /\ Len(mats) = 2
    /\ Len(vecs) >= 1
    /\ last.c0 > 0
    /\ Len(ctx.cells) > last.n0

(***************************************************************************)
(* The reference random linear combination of the tests, compute_rlc_acc.  *)
(***************************************************************************)
RECURSIVE RlcLowFirstUpTo(_, _, _)
\* the sum of msg[j] * r^(j-1) over the first k elements
RlcLowFirstUpTo(msg, r, k) ==
    IF k = 0 THEN 0
    ELSE FAdd(RlcLowFirstUpTo(msg, r, k - 1), FMul(msg[k], FPow(r, k - 1)))

\* a combination with msg[0] as the coefficient of the lowest degree
compute_rlc_acc_low_first(msg, r) == RlcLowFirstUpTo(msg, r, Len(msg))

RECURSIVE RlcUpTo(_, _, _)
\* the accumulator rlc of compute_rlc_acc after the first k >= 1 elements
RlcUpTo(msg, r, k) ==
    IF k = 1 THEN msg[1]
    ELSE FAdd(FMul(RlcUpTo(msg, r, k - 1), r), msg[k])

\* compute_rlc_acc: 0 for the empty message, otherwise the loop from msg[0]
compute_rlc_acc(msg, r) ==
    IF Len(msg) = 0 THEN 0 ELSE RlcUpTo(msg, r, Len(msg))

\* field elements of the messages and values of r
RlcElems == {0, 1, 2, Modulus - 1}

RlcMessages == SeqsUpTo(RlcElems, MaxVecLen)

\* the messages a and b and the value r are drawn before anything is
\* computed
InitRlc ==
    /\ ctx = EmptyCtx
    /\ mats = << >>
    /\ vecs = << >>
    /\ prods = << >>
    /\ rand = << >>
    /\ last = [op |-> "none", ok |-> TRUE, n0 |-> 0, c0 |-> 0]
    /\ \E a \in RlcMessages, b \in RlcMessages, r \in RlcElems :
          input = <<[a |-> a, b |-> b, r |-> r]>>

\* compute_rlc_acc on a, on b and on a followed by b
ComputeRlcAcc ==
    /\ Idle
    /\ Len(input) = 1
    /\ LET i == input[1]
       IN  last' = [op |-> "compute_rlc_acc", ok |-> TRUE, n0 |-> 0, c0 |-> 0,
                    of_a |-> compute_rlc_acc(i.a, i.r),
                    of_b |-> compute_rlc_acc(i.b, i.r),
                    of_ab |-> compute_rlc_acc(i.a \o i.b, i.r)]
    /\ UNCHANGED <<ctx, mats, vecs, prods, rand, input>>

NextRlc == ComputeRlcAcc

SpecRlc == InitRlc /\ [][NextRlc]_vars

RlcDone == last.op = "compute_rlc_acc"

RECURSIVE Horner(_, _, _)
\* the polynomial with the coefficients msg, msg[0] the highest, at r: the
\* sum of msg[j] * r^(k - j) over the first k elements
Horner(msg, r, k) ==
    IF k = 0 THEN 0
    ELSE FAdd(FMul(Horner(msg, r, k - 1), r), msg[k])

\* C23: compute_rlc_acc(a ++ b, r) = compute_rlc_acc(a, r) * r^len(b) +
\* compute_rlc_acc(b, r) for all messages a and b, empty ones included, and
\* compute_rlc_acc is the Horner evaluation with msg[0] as the coefficient
\* of the highest degree, 0 for the empty message
C23_RlcConcatenation ==
    RlcDone =>
        LET i == input[1]
        IN  /\ last.of_ab = FAdd(FMul(last.of_a, FPow(i.r, Len(i.b))), last.of_b)
            /\ last.of_a = Horner(i.a, i.r, Len(i.a))
            /\ last.of_b = Horner(i.b, i.r, Len(i.b))
            /\ Len(i.a) = 0 => last.of_a = 0 /\ last.of_ab = last.of_b
            /\ Len(i.b) = 0 => last.of_b = 0 /\ last.of_ab = last.of_a

\* the combination of a = (1, 2) and b = (p - 1, 0, 2) at r = 2 was computed:
\* a gives 4, b gives 2 - 4 = p - 2, and a ++ b gives 4 * 8 + p - 2 = 30
C23_Witness ==
    /\ RlcDone
    /\ input[1].a = <<1, 2>>
    /\ input[1].b = <<Modulus - 1, 0, 2>>
    /\ input[1].r = 2
    /\ last.of_a = 4
    /\ last.of_b = Modulus - 2
    /\ last.of_ab = 30

(***************************************************************************)
(* entries_less_than on vectors of every length (checked under SpecVec).   *)
(***************************************************************************)
\* entries_less_than emitted n range checks of the elements followed by
\* max(n - 1, 0) range checks of cells it made with qsub, for n = len(v)
ChecksForLength ==
    LET n == Len(last.v)
    IN  /\ Len(Emitted) = n + (IF n = 0 THEN 0 ELSE n - 1)
        /\ \A k \in 1..Len(Emitted) :
              /\ Emitted[k].kind = "less_than"
              /\ k <= n => Emitted[k].cell = last.v[k]
              /\ k > n => /\ Emitted[k].cell = last.n0 + (k - n)
                          /\ ctx.cells[Emitted[k].cell].by = "qsub"

\* C24: for a vector of every length n >= 0, the empty and the one-element
\* vector included, entries_less_than returns without aborting after n
\* element range checks followed by max(n - 1, 0) difference range checks
C24_EveryLength ==
    last.op = "entries_less_than" => last.ok /\ ChecksForLength

\* the same for the vectors with at least one element
NonEmptyLengths ==
    (last.op = "entries_less_than" /\ Len(last.v) >= 1) => last.ok /\ ChecksForLength

====
